---------------------------- MODULE Spec2Model ----------------------------
(***************************************************************************)
(* Model of the Glossary Entry Facade (src/glossary_manager.py): the       *)
(* GlossaryEntryManager object, its five REST operations, the bearer-token *)
(* credentials it refreshes lazily and the translation backend it talks    *)
(* to.                                                                     *)
(*                                                                         *)
(* Text values that the code formats or splits (paths, URLs, resource      *)
(* names, tokens) are sequences of atoms, "/" being an atom of its own, so *)
(* that f-string formatting is concatenation and str.split is computed.    *)
(***************************************************************************)
EXTENDS Integers, Sequences, FiniteSets, TLC

\* ------------------------------------------------------------------ bounds
\* Largest number of entries the backend ever allocates an ID for.
MaxEntries == 2

\* Default page size of list_glossary_entries.
DefaultPageSize == 100

\* ----------------------------------------------------------- Python values
\* Optional values: None, or a value that is present.
None == [tag |-> "None"]
Some(x) == [tag |-> "Some", val |-> x]
IsNone(r) == r.tag = "None"

\* JSON values as the decoder (response.json()) produces them.
JNull == [t |-> "null"]
JStr(s) == [t |-> "str", v |-> s]
JList(s) == [t |-> "list", v |-> s]
JObj(f) == [t |-> "obj", v |-> f]

\* The empty JSON object {}: a dict without keys.
EmptyDict == [k \in {} |-> JNull]

\* ------------------------------------------------------------- text values
Slash == "/"

\* str.split(sep): the maximal sep-free runs of s, in order; always at
\* least one segment, the empty one for the empty text.
RECURSIVE SplitFrom(_, _, _)
SplitFrom(s, sep, cur) ==
    IF s = <<>> THEN <<cur>>
    ELSE IF Head(s) = sep THEN <<cur>> \o SplitFrom(Tail(s), sep, <<>>)
    ELSE SplitFrom(Tail(s), sep, Append(cur, Head(s)))

Split(s, sep) == SplitFrom(s, sep, <<>>)

\* seq[-1]
LastOf(seq) == seq[Len(seq)]

IsPrefix(p, s) == Len(p) <= Len(s) /\ SubSeq(s, 1, Len(p)) = p


\* ------------------------------------------------------------ input domains
ProjectIds == {<<"p1">>}
AuthFiles == {<<"auth_files", Slash, "sa.json">>}
Locations == {<<"europe-west1">>}
GlossaryIds == {<<"g1">>, <<"g2">>}
Tokens == {<<"t1">>, <<"t2">>}
Descriptions == {"", "greeting"}
PageSizes == {DefaultPageSize, 1}

\* terms lists, in the snake_case form of the CLI example and the tests and
\* in the camelCase form of the REST contract
TermEn == ("language_code" :> "en") @@ ("text" :> "hello")
TermEs == ("language_code" :> "es") @@ ("text" :> "hola")
TermCamel == ("languageCode" :> "en") @@ ("text" :> "hello")
TermLists == {<<TermEn, TermEs>>, <<TermCamel>>}

\* ------------------------------------------------------------- the manager
DEFAULT_LOCATION == <<"us-central1">>
BASE_URL == <<"https:", Slash, Slash, "translation.googleapis.com", Slash, "v3">>

\* service_account.Credentials.from_service_account_file: credentials that
\* hold no token yet and are therefore not valid.
FreshCredentials == [valid |-> FALSE, token |-> None]

\* str(token) inside the f-string of the Authorization header
TokenText(tok) == IF IsNone(tok) THEN <<"None">> ELSE tok.val

\* A constructor that scopes the manager to one glossary, as a facade bound
\* to a project/location/glossary triple would.
GlossaryEntryManager_glossary_scoped(project_id, auth_file, locationArg) ==
    [project_id  |-> project_id,
     location    |-> IF IsNone(locationArg) THEN DEFAULT_LOCATION ELSE locationArg.val,
     auth_file   |-> auth_file,
     credentials |-> FreshCredentials,
     base_url    |-> BASE_URL,
     parent      |-> <<"projects", Slash>> \o project_id
                        \o <<Slash, "locations", Slash>>
                        \o (IF IsNone(locationArg) THEN DEFAULT_LOCATION
                            ELSE locationArg.val)
                        \o <<Slash, "glossaries", Slash, "g1">>]

\* GlossaryEntryManager.__init__; locationArg is None when the caller omits
\* the location keyword.
GlossaryEntryManager(project_id, auth_file, locationArg) ==
    LET location == IF IsNone(locationArg) THEN DEFAULT_LOCATION ELSE locationArg.val
    IN  [project_id  |-> project_id,
         location    |-> location,
         auth_file   |-> auth_file,
         credentials |-> FreshCredentials,
         base_url    |-> BASE_URL,
         parent      |-> <<"projects", Slash>> \o project_id
                            \o <<Slash, "locations", Slash>> \o location]

\* The environment of one call: what the token endpoint, the network and the
\* server do during it.
\*   refresh   "ok" | "raise"            credentials.refresh(Request())
\*   token     the token a successful refresh installs
\*   net       "ok" | "raise" | "lost"   the request is delivered and answered,
\*             fails before delivery, or is served with the answer lost
\*   fault     the server's deviation from the nominal answer
Faults == {"none", "s403", "s404", "s500", "badjson", "sparse", "nulls"}
Env(refresh, token, net, fault) ==
    [refresh |-> refresh, token |-> token, net |-> net, fault |-> fault]

\* The environments that differ in what a call can observe: the refresh
\* fails, or it works and the network fails, or both work and the server
\* answers with one of faults.
EnvsWith(faults) ==
    {Env("raise", t, "ok", "none") : t \in Tokens}
      \cup {Env("ok", t, n, "none") : t \in Tokens, n \in {"raise", "lost"}}
      \cup {Env("ok", t, "ok", f) : t \in Tokens, f \in faults}

\* _get_headers refreshing on every call, valid credentials or not.
get_headers_always_refresh(self, env) ==
    IF env.refresh = "raise"
       THEN [exc |-> "RefreshError", credentials |-> self.credentials,
             refreshes |-> 1, headers |-> None]
       ELSE [exc |-> "none",
             credentials |-> [valid |-> TRUE, token |-> Some(env.token)],
             refreshes |-> 1,
             headers |-> Some(
                 ("Authorization" :> <<"Bearer ">> \o env.token)
              @@ ("Content-Type" :> "application/json; charset=utf-8")
              @@ ("x-goog-user-project" :> self.project_id))]

\* GlossaryEntryManager._get_headers: refresh when not valid, then build the
\* headers from the token held. exc names the exception leaving the method.
get_headers(self, env) ==
    LET needs == ~self.credentials.valid
        creds == IF needs /\ env.refresh = "ok"
                    THEN [valid |-> TRUE, token |-> Some(env.token)]
                    ELSE self.credentials
    IN  IF needs /\ env.refresh = "raise"
           THEN [exc |-> "RefreshError", credentials |-> self.credentials,
                 refreshes |-> 1, headers |-> None]
           ELSE [exc |-> "none", credentials |-> creds,
                 refreshes |-> IF needs THEN 1 ELSE 0,
                 headers |-> Some(
                     ("Authorization" :> <<"Bearer ">> \o TokenText(creds.token))
                  @@ ("Content-Type" :> "application/json; charset=utf-8")
                  @@ ("x-goog-user-project" :> self.project_id))]

\* ------------------------------------------------------------- the backend
\* The translation service: a store of entries, each a JSON object holding
\* its resource name and the fields of the body it was written with, and the
\* number of the next entry ID it allocates. It stores what it receives.
EmptyBackend == [store |-> [i \in {} |-> EmptyDict], nextId |-> 1]

EntryIdText(i) == <<"e" \o ToString(i)>>

\* the resource path a URL addresses: the URL without "<base>/"
ResourcePath(url) ==
    IF IsPrefix(BASE_URL \o <<Slash>>, url)
       THEN SubSeq(url, Len(BASE_URL) + 2, Len(url))
       ELSE <<>>

\* the IDs of the stored entries whose resource name is path
IdsNamed(backend, path) ==
    {i \in DOMAIN backend.store : backend.store[i]["name"] = JStr(path)}

\* the IDs of the stored entries directly inside the collection path
IdsIn(backend, path) ==
    {i \in DOMAIN backend.store :
        \E id \in {EntryIdText(i)} :
            backend.store[i]["name"] = JStr(path \o <<Slash>> \o id)}

Min(S) == CHOOSE x \in S : \A y \in S : x <= y

\* the elements of a finite set of numbers, in ascending order
RECURSIVE Ascending(_)
Ascending(S) ==
    IF S = {} THEN <<>>
    ELSE <<Min(S)>> \o Ascending(S \ {Min(S)})

Without(f, i) == [k \in DOMAIN f \ {i} |-> f[k]]

Reply(code, json) == [status_code |-> code, body |-> [ok |-> TRUE, json |-> json]]

\* What the service does with a request when it works as documented: the new
\* backend and the answer.
Nominal(req, backend) ==
    LET path == ResourcePath(req.url)
        isCollection == path # <<>> /\ LastOf(path) = "glossaryEntries"
        named == IdsNamed(backend, path)
        notFound == [backend |-> backend, response |-> Reply(404, JObj(EmptyDict))]
    IN  CASE req.method = "POST" /\ isCollection ->
                LET i == backend.nextId
                    entry == ("name" :> JStr(path \o <<Slash>> \o EntryIdText(i)))
                                @@ req.json.val
                IN  [backend |-> [store |-> (i :> entry) @@ backend.store,
                                  nextId |-> i + 1],
                     response |-> Reply(200, JObj(entry))]
          [] req.method = "GET" /\ isCollection ->
                LET ids == Ascending(IdsIn(backend, path))
                    entries == [k \in 1..Len(ids) |-> backend.store[ids[k]]]
                    limit == req.params.val["pageSize"]
                    page == SubSeq(entries, 1, IF Len(entries) < limit
                                                  THEN Len(entries) ELSE limit)
                IN  [backend |-> backend,
                     response |-> Reply(200, JObj(
                         IF page = <<>> THEN EmptyDict
                         ELSE ("glossaryEntries" :> JList(page))))]
          [] req.method = "GET" /\ named # {} ->
                [backend |-> backend,
                 response |-> Reply(200, JObj(backend.store[CHOOSE i \in named : TRUE]))]
          [] req.method = "PATCH" /\ named # {} ->
                LET i == CHOOSE i \in named : TRUE
                    entry == ("name" :> JStr(path)) @@ req.json.val
                IN  [backend |-> [backend EXCEPT !.store[i] = entry],
                     response |-> Reply(200, JObj(entry))]
          [] req.method = "DELETE" /\ named # {} ->
                [backend |-> [backend EXCEPT
                                 !.store = Without(@, CHOOSE i \in named : TRUE)],
                 response |-> Reply(200, JObj(EmptyDict))]
          [] OTHER -> notFound

\* The service under a fault, n being what it does nominally: an error
\* status leaves the store alone; a mangled answer is the answer to a
\* request that was served.
Faulted(n, backend, fault) ==
    CASE fault = "s403" -> [backend |-> backend, response |-> Reply(403, JObj(EmptyDict))]
      [] fault = "s404" -> [backend |-> backend, response |-> Reply(404, JObj(EmptyDict))]
      [] fault = "s500" -> [backend |-> backend, response |-> Reply(500, JObj(EmptyDict))]
      [] fault = "badjson" ->
            [n EXCEPT !.response.body = [ok |-> FALSE, json |-> JNull]]
      [] fault = "sparse" ->
            [n EXCEPT !.response.body = [ok |-> TRUE, json |-> JObj(EmptyDict)]]
      [] fault = "nulls" ->
            [n EXCEPT !.response.body =
                [ok |-> TRUE,
                 json |-> JObj(("name" :> JNull) @@ ("glossaryEntries" :> JNull))]]
      [] OTHER -> n

Serve(req, backend, fault) == Faulted(Nominal(req, backend), backend, fault)

\* ---------------------------------------------------------- one round trip
NoHeaders == [k \in {} |-> <<>>]

\* What a call of requests.<verb> leaves behind.
Round(exc, self, backend, refreshes, requests, response) ==
    [exc |-> exc, self |-> self, backend |-> backend, refreshes |-> refreshes,
     requests |-> requests, response |-> response]

\* A transport that sends the request again when the first attempt fails.
transport_retry(self, backend, req, env, refreshes, served) ==
    CASE env.net = "raise" ->
            Round("none", self, served.backend, refreshes, <<req, req>>,
                  Some(served.response))
      [] env.net = "lost" ->
            Round("ConnectionError", self, served.backend, refreshes, <<req>>, None)
      [] OTHER ->
            Round("none", self, served.backend, refreshes, <<req>>,
                  Some(served.response))

\* requests.<verb>(url, headers=..., ...) with the headers built: the request
\* req is issued once; the network delivers it or not, and brings the answer
\* back or not.
transport(self, backend, req, env, refreshes, served) ==
    CASE env.net = "raise" ->
            Round("ConnectionError", self, backend, refreshes, <<req>>, None)
      [] env.net = "lost" ->
            Round("ConnectionError", self, served.backend, refreshes, <<req>>, None)
      [] OTHER ->
            Round("none", self, served.backend, refreshes, <<req>>,
                  Some(served.response))

issue(self, backend, req, env, refreshes) ==
    transport(self, backend, req, env, refreshes, Serve(req, backend, env.fault))

\* h is what self._get_headers() gave: an exception there means the verb is
\* never called.
with_headers(self, backend, req, env, h) ==
    IF h.exc # "none"
       THEN Round(h.exc, [self EXCEPT !.credentials = h.credentials], backend,
                  h.refreshes, <<>>, None)
       ELSE issue([self EXCEPT !.credentials = h.credentials], backend,
                  [req EXCEPT !.headers = h.headers.val], env, h.refreshes)

\* requests.<verb>(url, headers=self._get_headers(), ...): the headers are
\* built first, then the request is issued. requests lists the requests
\* issued.
send(self, backend, req, env) ==
    with_headers(self, backend, req, env, get_headers(self, env))

\* A collection URL that puts the entries directly under the parent.
EntriesUrl_under_parent(self, glossary_id) ==
    self.base_url \o <<Slash>> \o self.parent \o <<Slash, "glossaryEntries">>

\* f"{self.base_url}/{self.parent}/glossaries/{glossary_id}/glossaryEntries"
EntriesUrl(self, glossary_id) ==
    self.base_url \o <<Slash>> \o self.parent \o <<Slash, "glossaries", Slash>>
        \o glossary_id \o <<Slash, "glossaryEntries">>

\* f"{...}/glossaryEntries/{entry_id}"
EntryUrl(self, glossary_id, entry_id) ==
    EntriesUrl(self, glossary_id) \o <<Slash>> \o entry_id

\* A request body that carries the description also when it is empty.
RequestBody_always_description(terms, description) ==
    ("description" :> description) @@ ("termsSet" :> ("terms" :> terms))

\* A request body that leaves the caller's terms out.
RequestBody_terms_dropped(terms, description) ==
    IF description # ""
       THEN ("description" :> description) @@ ("termsSet" :> ("terms" :> <<>>))
       ELSE ("termsSet" :> ("terms" :> <<>>))

\* request_body of create_glossary_entry and update_glossary_entry
RequestBody(terms, description) ==
    LET request_body == ("termsSet" :> ("terms" :> terms))
    IN  IF description # ""
           THEN ("description" :> description) @@ request_body
           ELSE request_body

\* The outcome of a try block that got as far as r and ends with exception
\* exc ("none": it returned result).
Ended(r, exc, result) ==
    [exc |-> exc, result |-> result, caught |-> "none", self |-> r.self,
     backend |-> r.backend, refreshes |-> r.refreshes, requests |-> r.requests,
     response |-> r.response]

\* except requests.RequestException: only transport errors are caught.
Except_transport_only(t, failure) ==
    IF t.exc = "ConnectionError"
       THEN [t EXCEPT !.exc = "none", !.caught = t.exc, !.result = failure]
       ELSE t

\* except Exception as e: return <failure value>
Except(t, failure) ==
    IF t.exc # "none"
       THEN [t EXCEPT !.exc = "none", !.caught = t.exc, !.result = failure]
       ELSE t

\* ------------------------------------------------------ the five operations
\* list_glossary_entries after requests.get: r is the round trip.
list_answer(r, resp, data) ==
    IF r.exc # "none" THEN Ended(r, r.exc, <<>>)
    ELSE IF resp.status_code = 200
       THEN IF ~resp.body.ok THEN Ended(r, "JSONDecodeError", <<>>)
            ELSE IF data.t # "obj" THEN Ended(r, "AttributeError", <<>>)
            ELSE IF "glossaryEntries" \notin DOMAIN data.v THEN Ended(r, "none", <<>>)
            ELSE IF data.v["glossaryEntries"].t # "list" THEN Ended(r, "TypeError", <<>>)
            ELSE Ended(r, "none", data.v["glossaryEntries"].v)
    ELSE IF resp.status_code = 404 THEN Ended(r, "none", <<>>)
    ELSE IF resp.status_code = 403 THEN Ended(r, "none", <<>>)
    ELSE Ended(r, "none", <<>>)

\* A listing that records the glossary it addressed in self.parent.
list_after_rescoped(r) ==
    [list_answer(r, r.response.val, r.response.val.body.json)
        EXCEPT !.self.parent = @ \o <<Slash, "glossaries">>]

list_after(r) == list_answer(r, r.response.val, r.response.val.body.json)

\* The try block of list_glossary_entries.
list_try(self, backend, glossary_id, page_size, env) ==
    list_after(send(self, backend,
                    [method |-> "GET", url |-> EntriesUrl(self, glossary_id),
                     headers |-> NoHeaders,
                     params |-> Some("pageSize" :> page_size), json |-> None], env))

\* list_glossary_entries without its try/except.
list_glossary_entries_unguarded(self, backend, glossary_id, page_size, env) ==
    list_try(self, backend, glossary_id, page_size, env)

list_glossary_entries(self, backend, glossary_id, page_size, env) ==
    Except(list_try(self, backend, glossary_id, page_size, env), <<>>)

\* A get that only tells 404 apart and decodes every other answer.
get_answer_not_404(r, resp) ==
    IF r.exc # "none" THEN Ended(r, r.exc, None)
    ELSE IF resp.status_code = 404 THEN Ended(r, "none", None)
    ELSE IF ~resp.body.ok THEN Ended(r, "JSONDecodeError", None)
    ELSE Ended(r, "none", Some(resp.body.json))

\* get_glossary_entry after requests.get.
get_answer(r, resp) ==
    IF r.exc # "none" THEN Ended(r, r.exc, None)
    ELSE IF resp.status_code = 200
       THEN IF ~resp.body.ok THEN Ended(r, "JSONDecodeError", None)
            ELSE Ended(r, "none", Some(resp.body.json))
    ELSE IF resp.status_code = 404 THEN Ended(r, "none", None)
    ELSE Ended(r, "none", None)

get_after(r) == get_answer(r, r.response.val)

\* The try block of get_glossary_entry.
get_try(self, backend, glossary_id, entry_id, env) ==
    get_after(send(self, backend,
                   [method |-> "GET", url |-> EntryUrl(self, glossary_id, entry_id),
                    headers |-> NoHeaders, params |-> None, json |-> None], env))

get_glossary_entry(self, backend, glossary_id, entry_id, env) ==
    Except(get_try(self, backend, glossary_id, entry_id, env), None)

\* A create that takes the first segment of the name, split("/")[0].
create_answer_first_segment(r, resp, entry) ==
    IF r.exc # "none" THEN Ended(r, r.exc, None)
    ELSE IF resp.status_code = 200
       THEN IF ~resp.body.ok THEN Ended(r, "JSONDecodeError", None)
            ELSE IF entry.t # "obj" THEN Ended(r, "TypeError", None)
            ELSE IF "name" \notin DOMAIN entry.v THEN Ended(r, "KeyError", None)
            ELSE IF entry.v["name"].t # "str" THEN Ended(r, "AttributeError", None)
            ELSE Ended(r, "none", Some(Split(entry.v["name"].v, Slash)[1]))
    ELSE Ended(r, "none", None)

\* create_glossary_entry after requests.post.
create_answer(r, resp, entry) ==
    IF r.exc # "none" THEN Ended(r, r.exc, None)
    ELSE IF resp.status_code = 200
       THEN IF ~resp.body.ok THEN Ended(r, "JSONDecodeError", None)
            ELSE IF entry.t # "obj" THEN Ended(r, "TypeError", None)
            ELSE IF "name" \notin DOMAIN entry.v THEN Ended(r, "KeyError", None)
            ELSE IF entry.v["name"].t # "str" THEN Ended(r, "AttributeError", None)
            ELSE Ended(r, "none", Some(LastOf(Split(entry.v["name"].v, Slash))))
    ELSE Ended(r, "none", None)

create_after(r) == create_answer(r, r.response.val, r.response.val.body.json)

\* The try block of create_glossary_entry.
create_try(self, backend, glossary_id, terms, description, env) ==
    create_after(send(self, backend,
                      [method |-> "POST", url |-> EntriesUrl(self, glossary_id),
                       headers |-> NoHeaders, params |-> None,
                       json |-> Some(RequestBody(terms, description))], env))

create_glossary_entry(self, backend, glossary_id, terms, description, env) ==
    Except(create_try(self, backend, glossary_id, terms, description, env), None)

\* update_glossary_entry after requests.patch.
update_answer(r, resp) ==
    IF r.exc # "none" THEN Ended(r, r.exc, FALSE)
    ELSE IF resp.status_code = 200
       THEN IF ~resp.body.ok THEN Ended(r, "JSONDecodeError", FALSE)
            ELSE Ended(r, "none", TRUE)
    ELSE Ended(r, "none", FALSE)

update_after(r) == update_answer(r, r.response.val)

\* The try block of update_glossary_entry.
update_try(self, backend, glossary_id, entry_id, terms, description, env) ==
    update_after(send(self, backend,
                      [method |-> "PATCH", url |-> EntryUrl(self, glossary_id, entry_id),
                       headers |-> NoHeaders, params |-> None,
                       json |-> Some(RequestBody(terms, description))], env))

update_glossary_entry(self, backend, glossary_id, entry_id, terms, description, env) ==
    Except(update_try(self, backend, glossary_id, entry_id, terms, description, env),
           FALSE)

\* A delete that counts an entry that is already gone as deleted.
delete_answer_idempotent(r, resp) ==
    IF r.exc # "none" THEN Ended(r, r.exc, FALSE)
    ELSE IF resp.status_code \in {200, 404} THEN Ended(r, "none", TRUE)
    ELSE Ended(r, "none", FALSE)

\* delete_glossary_entry after requests.delete.
delete_answer(r, resp) ==
    IF r.exc # "none" THEN Ended(r, r.exc, FALSE)
    ELSE IF resp.status_code = 200 THEN Ended(r, "none", TRUE)
    ELSE Ended(r, "none", FALSE)

delete_after(r) == delete_answer(r, r.response.val)

\* The try block of delete_glossary_entry.
delete_try(self, backend, glossary_id, entry_id, env) ==
    delete_after(send(self, backend,
                      [method |-> "DELETE", url |-> EntryUrl(self, glossary_id, entry_id),
                       headers |-> NoHeaders, params |-> None, json |-> None], env))

delete_glossary_entry(self, backend, glossary_id, entry_id, env) ==
    Except(delete_try(self, backend, glossary_id, entry_id, env), FALSE)

\* --------------------------------------------------------- the state machine
\* ctor      the arguments the manager was constructed with
\* self      the GlossaryEntryManager object
\* backend   the translation service
\* last      the call that has just returned to the caller: its arguments,
\*           what it found, what it did and what it gave back; op "none"
\*           while the caller is between calls
\* cli       the process running the entry command line, main() of
\*           glossary_manager.py; NoProcess while the manager is driven by
\*           a caller's own code
\* naming    one use of the object naming convention: a language pair, the
\*           object name derived from it and the pair read back from that
\*           name; NoNaming while it is not in use
\* xfer      the process running the transfer command line, main() of
\*           cli.py, with the bucket and the local files it works on;
\*           NoProcess while it is not running
VARIABLES ctor, self, backend, last, cli, naming, xfer, conf, ask
vars == <<ctor, self, backend, last, cli, naming, xfer, conf, ask>>

NoProcess == [pc |-> "none"]
NoNaming == [pc |-> "none"]

EntryIdArgs == {EntryIdText(i) : i \in 1..MaxEntries}

NoCall ==
    [op |-> "none", glossary_id |-> None, entry_id |-> None,
     terms |-> None, description |-> None, page_size |-> None,
     validBefore |-> FALSE, stored |-> 0, exc |-> "none", caught |-> "none",
     result |-> None, refreshes |-> 0, requests |-> <<>>, response |-> None]

\* The record of a call with outcome out.
Called(op, glossary_id, entry_id, terms, description, page_size, out) ==
    [op |-> op, glossary_id |-> Some(glossary_id),
     entry_id |-> entry_id, terms |-> terms, description |-> description,
     page_size |-> page_size,
     validBefore |-> self.credentials.valid,
     stored |-> Cardinality(DOMAIN backend.store),
     exc |-> out.exc, caught |-> out.caught, result |-> out.result,
     refreshes |-> out.refreshes, requests |-> out.requests,
     response |-> out.response]

Init ==
    /\ ctor \in [project_id : ProjectIds, auth_file : AuthFiles,
                 location : {None} \cup {Some(l) : l \in Locations}]
    /\ self = GlossaryEntryManager(ctor.project_id, ctor.auth_file, ctor.location)
    /\ backend = EmptyBackend
    /\ last = NoCall
    /\ cli = NoProcess
    /\ naming = NoNaming
    /\ xfer = NoProcess
    /\ conf = NoProcess
    /\ ask = NoProcess

Finish(out, rec) ==
    /\ self' = out.self
    /\ backend' = out.backend
    /\ last' = rec
    /\ UNCHANGED <<ctor, cli, naming, xfer, conf, ask>>

List ==
    /\ last.op = "none"
    /\ \E g \in GlossaryIds, n \in PageSizes, env \in EnvsWith(Faults) :
        \E out \in {list_glossary_entries(self, backend, g, n, env)} :
            Finish(out, Called("list", g, None, None, None, Some(n), out))

Get ==
    /\ last.op = "none"
    /\ \E g \in GlossaryIds, e \in EntryIdArgs,
          env \in EnvsWith({"none", "s404", "s500", "badjson"}) :
        \E out \in {get_glossary_entry(self, backend, g, e, env)} :
            Finish(out, Called("get", g, Some(e), None, None, None, out))

Create ==
    /\ last.op = "none"
    /\ backend.nextId <= MaxEntries
    /\ \E g \in GlossaryIds, t \in TermLists, d \in Descriptions,
          env \in EnvsWith({"none", "s403", "s500", "badjson", "sparse", "nulls"}) :
        \E out \in {create_glossary_entry(self, backend, g, t, d, env)} :
            Finish(out, Called("create", g, None, Some(t), Some(d), None, out))

Update ==
    /\ last.op = "none"
    /\ \E g \in GlossaryIds, e \in EntryIdArgs, t \in TermLists, d \in Descriptions,
          env \in EnvsWith({"none", "s404", "badjson"}) :
        \E out \in {update_glossary_entry(self, backend, g, e, t, d, env)} :
            Finish(out, Called("update", g, Some(e), Some(t), Some(d), None, out))

Delete ==
    /\ last.op = "none"
    /\ \E g \in GlossaryIds, e \in EntryIdArgs,
          env \in EnvsWith({"none", "s404", "badjson"}) :
        \E out \in {delete_glossary_entry(self, backend, g, e, env)} :
            Finish(out, Called("delete", g, Some(e), None, None, None, out))

\* The caller takes the result and is free to call again.
Return ==
    /\ last.op # "none"
    /\ last' = NoCall
    /\ UNCHANGED <<ctor, self, backend, cli, naming, xfer, conf, ask>>

\* Time passes and the token held expires.
Expire ==
    /\ last.op = "none"
    /\ self.credentials.valid
    /\ self' = [self EXCEPT !.credentials.valid = FALSE]
    /\ UNCHANGED <<ctor, backend, last, cli, naming, xfer, conf, ask>>

Next == List \/ Get \/ Create \/ Update \/ Delete \/ Return \/ Expire

Spec == Init /\ [][Next]_vars

\* ------------------------------------------------------------------ claims
\* what the call that has just returned saw and did
Answered == ~IsNone(last.response)
Status == last.response.val.status_code
Body == last.response.val.body
Sent == last.requests # <<>>

\* the body decodes to a JSON object
DecodesToObject == Body.ok /\ Body.json.t = "obj"

\* r is the final sep-separated segment of text s
IsFinalSegment(r, s, sep) ==
    /\ \A k \in 1..Len(r) : r[k] # sep
    /\ Len(r) <= Len(s)
    /\ SubSeq(s, Len(s) - Len(r) + 1, Len(s)) = r
    /\ Len(r) < Len(s) => s[Len(s) - Len(r)] = sep

\* C1: list_glossary_entries never raises; it returns the glossaryEntries
\* collection of a 200 answer, the empty list when a 200 answer has no such
\* key, and the empty list for 404, 403, any other status and any exception
\* (no headers, no answer, an undecodable body, a body without a collection).
C1_ListReturns ==
    last.op = "list" =>
        /\ last.exc = "none"
        /\ last.result =
             IF /\ Answered
                /\ Status = 200
                /\ DecodesToObject
                /\ "glossaryEntries" \in DOMAIN Body.json.v
                /\ Body.json.v["glossaryEntries"].t = "list"
             THEN Body.json.v["glossaryEntries"].v
             ELSE <<>>

\* C1 witness: a listing answered 200 with stored entries in it.
C1_Witness ==
    /\ last.op = "list"
    /\ Answered
    /\ Status = 200
    /\ Len(last.result) >= 1
    /\ last.result = Body.json.v["glossaryEntries"].v

\* C2: create_glossary_entry returns the final "/"-separated segment of the
\* answer's name when the POST answers 200, returns None for every other
\* status, and returns no ID but one the server returned.
C2_CreateReturnsServerId ==
    last.op = "create" =>
        /\ (Answered /\ Status # 200) => IsNone(last.result)
        /\ (/\ Answered
            /\ Status = 200
            /\ DecodesToObject
            /\ "name" \in DOMAIN Body.json.v
            /\ Body.json.v["name"].t = "str")
           => /\ ~IsNone(last.result)
              /\ IsFinalSegment(last.result.val, Body.json.v["name"].v, Slash)
        /\ ~IsNone(last.result) =>
              /\ Answered
              /\ Status = 200
              /\ DecodesToObject
              /\ "name" \in DOMAIN Body.json.v
              /\ Body.json.v["name"].t = "str"
              /\ IsFinalSegment(last.result.val, Body.json.v["name"].v, Slash)

\* C2 witness: a create answered 200 whose result is the ID of the second
\* entry the server allocated.
C2_Witness ==
    /\ last.op = "create"
    /\ Answered
    /\ Status = 200
    /\ last.result = Some(EntryIdText(2))

\* C3: the body of the POST and of the PATCH is {termsSet: {terms: T}} with T
\* the caller's terms unchanged, plus description exactly when the caller's
\* description is not empty, and no other key.
C3_RequestBodyShape ==
    (last.op \in {"create", "update"} /\ Sent) =>
        LET body == last.requests[1].json.val
        IN  /\ DOMAIN body = IF last.description.val # ""
                                THEN {"termsSet", "description"}
                                ELSE {"termsSet"}
            /\ DOMAIN body["termsSet"] = {"terms"}
            /\ body["termsSet"]["terms"] = last.terms.val
            /\ "description" \in DOMAIN body
                  => body["description"] = last.description.val

\* C3 witness: an update sent with two terms and the empty description.
C3_Witness ==
    /\ last.op = "update"
    /\ Sent
    /\ last.description = Some("")
    /\ Len(last.terms.val) = 2
    /\ DOMAIN last.requests[1].json.val = {"termsSet"}

\* C4: get_glossary_entry never raises; it returns the decoded entry when the
\* GET answers 200 and None on 404, on any other status and on any exception.
C4_GetReturns ==
    last.op = "get" =>
        /\ last.exc = "none"
        /\ last.result =
             IF Answered /\ Status = 200 /\ Body.ok
                THEN Some(Body.json)
                ELSE None

\* C4 witness: a get answered 200 that returns a stored entry with its name.
C4_Witness ==
    /\ last.op = "get"
    /\ Answered
    /\ Status = 200
    /\ ~IsNone(last.result)
    /\ "termsSet" \in DOMAIN last.result.val.v

\* C5 as stated: update_glossary_entry and delete_glossary_entry return True
\* if and only if the server answered the PATCH / DELETE with 200.
C5_TrueIffStatus200 ==
    last.op \in {"update", "delete"} =>
        (last.result = TRUE <=> (Answered /\ Status = 200))

\* C5 as amended: delete_glossary_entry returns True if and only if the
\* DELETE was answered 200; update_glossary_entry returns True if and only
\* if the PATCH was answered 200 with a body that decodes as JSON; every
\* other status and every exception yields False.
C5_TrueIffStatus200Decoded ==
    /\ last.op = "delete" =>
          (last.result = TRUE <=> (Answered /\ Status = 200))
    /\ last.op = "update" =>
          (last.result = TRUE <=> (Answered /\ Status = 200 /\ Body.ok))
    /\ last.op \in {"update", "delete"} =>
          /\ last.result \in BOOLEAN
          /\ last.exc = "none"

\* C5 witness: an update that the server applied and answered 200 with a
\* body that does not decode, reported as False.
C5_Witness ==
    /\ last.op = "update"
    /\ Answered
    /\ Status = 200
    /\ ~Body.ok
    /\ last.result = FALSE
    /\ \E i \in DOMAIN backend.store :
          backend.store[i]["termsSet"]["terms"] = last.terms.val

\* the failure value of an operation
FailureValue(op) ==
    CASE op = "list" -> <<>>
      [] op \in {"get", "create"} -> None
      [] OTHER -> FALSE

\* C6: no exception leaves any of the five operations; a failing token
\* refresh, a transport error, an undecodable body where the operation
\* decodes it, a 200 answer to create without a name, and every other
\* exception raised inside the operation give the operation's failure value.
C6_NoExceptionPropagates ==
    last.op # "none" =>
        /\ last.exc = "none"
        /\ last.caught # "none" => last.result = FailureValue(last.op)
        /\ ~Sent => last.result = FailureValue(last.op)
        /\ ~Answered => last.result = FailureValue(last.op)
        /\ (Answered /\ Status = 200 /\ ~Body.ok /\ last.op # "delete")
              => last.result = FailureValue(last.op)
        /\ (/\ last.op = "create"
            /\ Answered
            /\ Status = 200
            /\ DecodesToObject
            /\ "name" \notin DOMAIN Body.json.v)
              => last.result = FailureValue(last.op)

\* C6 witness: a create answered 200 without a name: the KeyError is caught
\* and None is returned.
C6_Witness ==
    /\ last.op = "create"
    /\ Answered
    /\ Status = 200
    /\ DecodesToObject
    /\ "name" \notin DOMAIN Body.json.v
    /\ last.caught = "KeyError"
    /\ IsNone(last.result)

\* C7 as stated: every call of an operation issues exactly one request.
C7_ExactlyOneRequest ==
    last.op # "none" => Len(last.requests) = 1

\* the stored entries that were written with the arguments of the last call
\* into the glossary of the last call
StoredAsSubmitted ==
    {i \in DOMAIN backend.store :
        /\ backend.store[i]["termsSet"]["terms"] = last.terms.val
        /\ ("description" \in DOMAIN backend.store[i]) = (last.description.val # "")
        /\ IsPrefix(self.parent \o <<Slash, "glossaries", Slash>>
                        \o last.glossary_id.val \o <<Slash>>,
                    backend.store[i]["name"].v)}

\* C7 as amended: every call issues at most one request: exactly one when
\* the headers were built and none when the token refresh raised; a failed
\* request is never re-sent; every create call issues its own POST, so a
\* create that is answered 200 by a working server adds one entry to the ones
\* stored before, also when an entry with the same arguments is stored.
C7_AtMostOneRequest ==
    last.op # "none" =>
        /\ Len(last.requests) <= 1
        /\ Len(last.requests) = 0 <=> last.caught = "RefreshError"
        /\ last.caught = "RefreshError" => ~last.validBefore
        /\ (last.op = "create" /\ Sent) => last.requests[1].method = "POST"
        /\ (last.op = "create" /\ ~IsNone(last.result)) =>
              /\ Cardinality(DOMAIN backend.store) = last.stored + 1
              /\ \E i \in StoredAsSubmitted :
                    IsFinalSegment(last.result.val, backend.store[i]["name"].v, Slash)

\* C7 witness: the second of two creates with identical arguments has
\* returned: two entries written with these arguments are stored.
C7_Witness ==
    /\ last.op = "create"
    /\ ~IsNone(last.result)
    /\ Len(last.requests) = 1
    /\ Cardinality(StoredAsSubmitted) = 2

\* C8: the token is refreshed exactly when the credentials are not valid as
\* the headers are built; no request is sent with credentials that are not
\* valid after that check; the Authorization header is "Bearer " followed by
\* the token held after it.
C8_LazyRefresh ==
    last.op # "none" =>
        /\ last.refreshes = IF last.validBefore THEN 0 ELSE 1
        /\ Sent =>
              /\ self.credentials.valid
              /\ ~IsNone(self.credentials.token)
              /\ last.requests[1].headers["Authorization"]
                    = <<"Bearer ">> \o self.credentials.token.val

\* C8 witness: a call that found the credentials not valid after an entry
\* had been created, refreshed them and sent its request with the new token.
C8_Witness ==
    /\ last.op = "get"
    /\ ~last.validBefore
    /\ last.refreshes = 1
    /\ Sent
    /\ last.requests[1].headers["Authorization"] = <<"Bearer ", "t2">>
    /\ backend.nextId > 1

\* the parent of a manager constructed with the arguments ctor
ParentOf(args) ==
    <<"projects", Slash>> \o args.project_id \o <<Slash, "locations", Slash>>
        \o (IF IsNone(args.location) THEN <<"us-central1">> ELSE args.location.val)

\* C9 as stated: the parent fixed at construction is the glossary that the
\* operations of the manager address,
\* projects/{p}/locations/{loc}/glossaries/{g}.
C9_ParentNamesGlossary ==
    last.op # "none" =>
        self.parent = ParentOf(ctor) \o <<Slash, "glossaries", Slash>>
                          \o last.glossary_id.val

\* C9 as amended: the manager is scoped at construction to one project and
\* location, parent = projects/{p}/locations/{loc}; the glossary is the
\* glossary_id argument of each call, so every request of one manager
\* addresses a glossary of that project and location, and not always the
\* same one.
C9_ScopedToProjectLocation ==
    /\ self.parent = ParentOf(ctor)
    /\ Sent =>
          IsPrefix(self.base_url \o <<Slash>> \o ParentOf(ctor)
                       \o <<Slash, "glossaries", Slash>> \o last.glossary_id.val
                       \o <<Slash, "glossaryEntries">>,
                   last.requests[1].url)

\* the glossaries that hold a stored entry
GlossariesInUse ==
    {g \in GlossaryIds :
        \E i \in DOMAIN backend.store :
            IsPrefix(ParentOf(ctor) \o <<Slash, "glossaries", Slash>> \o g \o <<Slash>>,
                     backend.store[i]["name"].v)}

\* C9 witness: one manager has written entries into two glossaries.
C9_Witness ==
    /\ last.op = "create"
    /\ Sent
    /\ Cardinality(GlossariesInUse) = 2

\* C10: after construction with (project_id, auth_file, location) the manager
\* holds parent = projects/{project_id}/locations/{location} and base_url =
\* https://translation.googleapis.com/v3, location being us-central1 when
\* omitted; these and project_id, location and auth_file stay as constructed
\* through every sequence of calls.
C10_ConstructedFieldsKept ==
    /\ self.project_id = ctor.project_id
    /\ self.auth_file = ctor.auth_file
    /\ self.location = IF IsNone(ctor.location)
                          THEN <<"us-central1">> ELSE ctor.location.val
    /\ self.parent = <<"projects", Slash>> \o ctor.project_id
                        \o <<Slash, "locations", Slash>> \o self.location
    /\ self.base_url
          = <<"https:", Slash, Slash, "translation.googleapis.com", Slash, "v3">>

\* C10 witness: a manager constructed without a location has created,
\* updated and now deleted an entry.
C10_Witness ==
    /\ IsNone(ctor.location)
    /\ last.op = "delete"
    /\ last.result = TRUE
    /\ backend.nextId > 1
    /\ self.credentials.valid

\* the URL of the entry collection of glossary g under the manager's
\* project and location
CollectionOf(g) ==
    <<"https:", Slash, Slash, "translation.googleapis.com", Slash, "v3", Slash>>
        \o ParentOf(ctor) \o <<Slash, "glossaries", Slash>> \o g
        \o <<Slash, "glossaryEntries">>

\* the HTTP method the contract gives each operation
MethodOf(op) ==
    CASE op \in {"list", "get"} -> "GET"
      [] op = "create" -> "POST"
      [] op = "update" -> "PATCH"
      [] OTHER -> "DELETE"

\* C11: every request goes to
\* {base}/{parent}/glossaries/{glossaryId}/glossaryEntries for list and
\* create and to that URL followed by /{entryId} for get, update and delete,
\* the IDs being the arguments of the call; the method is GET for list and
\* get, POST for create, PATCH for update and DELETE for delete.
C11_RequestUrlAndMethod ==
    (last.op # "none" /\ Sent) =>
        /\ last.requests[1].method = MethodOf(last.op)
        /\ last.requests[1].url =
              IF last.op \in {"list", "create"}
                 THEN CollectionOf(last.glossary_id.val)
                 ELSE CollectionOf(last.glossary_id.val) \o <<Slash>>
                          \o last.entry_id.val

\* C11 witness: a delete was sent for the second entry ID in the second
\* glossary after entries had been created.
C11_Witness ==
    /\ last.op = "delete"
    /\ Sent
    /\ last.glossary_id = Some(<<"g2">>)
    /\ last.entry_id = Some(EntryIdText(2))
    /\ last.requests[1].method = "DELETE"
    /\ backend.nextId > 1

\* C12 as stated: every term in the body of a create or update request is
\* sent under the camelCase keys languageCode and text, for every terms list
\* the caller passes, the snake_case language_code form included.
C12_TermsSentCamelCase ==
    (last.op \in {"create", "update"} /\ Sent) =>
        LET sent == last.requests[1].json.val["termsSet"]["terms"]
        IN  /\ Len(sent) = Len(last.terms.val)
            /\ \A k \in 1..Len(sent) : DOMAIN sent[k] = {"languageCode", "text"}

\* the create that has just returned succeeded against a service that stored
\* what it received
CreateStored ==
    /\ last.op = "create"
    /\ ~IsNone(last.result)
    /\ Cardinality(DOMAIN backend.store) = last.stored + 1

\* what get_glossary_entry returns when it is called next with the ID the
\* create returned, the token refresh, the network and the service working
GetOfCreated(token) ==
    get_glossary_entry(self, backend, last.glossary_id.val, last.result.val,
                       Env("ok", token, "ok", "none")).result

\* C13 as stated: a successful create immediately followed by get with the
\* returned ID returns an entry whose terms and whose description equal the
\* ones submitted, for every terms list and every description, the empty
\* description included.
C13_CreateThenGetEqual ==
    CreateStored =>
        \A token \in Tokens :
            \E got \in {GetOfCreated(token)} :
                /\ ~IsNone(got)
                /\ got.val.t = "obj"
                /\ got.val.v["termsSet"]["terms"] = last.terms.val
                /\ "description" \in DOMAIN got.val.v
                /\ got.val.v["description"] = last.description.val

\* C13 as amended: a successful create immediately followed by get with the
\* returned ID returns an entry whose terms equal the ones submitted and
\* whose description equals a non-empty description submitted; when the
\* empty description was submitted the entry returned has no description
\* field at all.
C13_CreateThenGetStored ==
    CreateStored =>
        \A token \in Tokens :
            \E got \in {GetOfCreated(token)} :
                /\ ~IsNone(got)
                /\ got.val.t = "obj"
                /\ got.val.v["termsSet"]["terms"] = last.terms.val
                /\ ("description" \in DOMAIN got.val.v) = (last.description.val # "")
                /\ "description" \in DOMAIN got.val.v
                      => got.val.v["description"] = last.description.val

\* C13 witness: a second entry was created with snake_case terms and the
\* empty description, and the get that follows finds it, without a
\* description field.
C13_Witness ==
    /\ CreateStored
    /\ last.result = Some(EntryIdText(2))
    /\ last.description = Some("")
    /\ last.terms = Some(<<TermEn, TermEs>>)
    /\ ~IsNone(GetOfCreated(<<"t2">>))
    /\ "description" \notin DOMAIN GetOfCreated(<<"t2">>).val.v

\* ------------------------------------------------- json.loads(args.terms)
\* A JSON text is the sequence of its tokens, white space dropped: the
\* punctuation marks, the string literals and anything else ("w", a bare
\* word, which no JSON value starts with).
P(c) == [k |-> "p", v |-> c]
S(x) == [k |-> "s", v |-> x]
W(x) == [k |-> "w", v |-> x]

Parsed(v, next) == [ok |-> TRUE, v |-> v, next |-> next]
NotParsed == [ok |-> FALSE, v |-> <<>>, next |-> 0]

\* The decoder: the value that starts at token i of t and the position after
\* it. Strings decode to strings, arrays to sequences, objects to dicts (a
\* repeated key keeps its last value).
RECURSIVE ParseValue(_, _)
RECURSIVE ParseElements(_, _, _)
RECURSIVE AfterElement(_, _, _)
RECURSIVE ParseMembers(_, _, _)
RECURSIVE AfterMember(_, _, _, _)

ParseValue(t, i) ==
    IF i > Len(t) THEN NotParsed
    ELSE IF t[i].k = "s" THEN Parsed(t[i].v, i + 1)
    ELSE IF t[i] = P("[")
       THEN IF i + 1 <= Len(t) /\ t[i + 1] = P("]")
               THEN Parsed(<<>>, i + 2)
               ELSE ParseElements(t, i + 1, <<>>)
    ELSE IF t[i] = P("{")
       THEN IF i + 1 <= Len(t) /\ t[i + 1] = P("}")
               THEN Parsed(EmptyDict, i + 2)
               ELSE ParseMembers(t, i + 1, EmptyDict)
    ELSE NotParsed

ParseElements(t, i, acc) == AfterElement(t, ParseValue(t, i), acc)

AfterElement(t, r, acc) ==
    IF ~r.ok \/ r.next > Len(t) THEN NotParsed
    ELSE IF t[r.next] = P(",") THEN ParseElements(t, r.next + 1, Append(acc, r.v))
    ELSE IF t[r.next] = P("]") THEN Parsed(Append(acc, r.v), r.next + 1)
    ELSE NotParsed

ParseMembers(t, i, acc) ==
    IF i + 1 > Len(t) THEN NotParsed
    ELSE IF t[i].k # "s" \/ t[i + 1] # P(":") THEN NotParsed
    ELSE AfterMember(t, t[i].v, ParseValue(t, i + 2), acc)

AfterMember(t, key, r, acc) ==
    IF ~r.ok \/ r.next > Len(t) THEN NotParsed
    ELSE IF t[r.next] = P(",")
       THEN ParseMembers(t, r.next + 1, (key :> r.v) @@ acc)
    ELSE IF t[r.next] = P("}") THEN Parsed((key :> r.v) @@ acc, r.next + 1)
    ELSE NotParsed

\* A decoder that gives the empty list for a text it cannot read.
json_loads_of_lenient(r, text) ==
    IF r.ok /\ r.next = Len(text) + 1
       THEN [exc |-> "none", value |-> r.v]
       ELSE [exc |-> "none", value |-> <<>>]

\* json.loads once the decoder has read r from text: the whole text must be
\* one value.
json_loads_of(r, text) ==
    IF r.ok /\ r.next = Len(text) + 1
       THEN [exc |-> "none", value |-> r.v]
       ELSE [exc |-> "JSONDecodeError", value |-> <<>>]

json_loads(text) == json_loads_of(ParseValue(text, 1), text)

\* the JSON text of one term
TermJson(key, code, text) ==
    <<P("{"), S(key), P(":"), S(code), P(","), S("text"), P(":"), S(text), P("}")>>

\* --terms values: the terms of the command-line example, a camelCase list,
\* the example cut short before its closing bracket, and a bare word
TermsJsonEnEs ==
    <<P("[")>> \o TermJson("language_code", "en", "hello") \o <<P(",")>>
        \o TermJson("language_code", "es", "hola") \o <<P("]")>>
TermsJsonCamel == <<P("[")>> \o TermJson("languageCode", "en", "hello") \o <<P("]")>>
TermsJsonCut == SubSeq(TermsJsonEnEs, 1, Len(TermsJsonEnEs) - 1)
TermsJsonWord == <<W("hello")>>

\* ------------------------------------- the entry command line: main()
CliDefaultPageSize == 100
CliActions == {"list", "get", "create", "update", "delete"}

\* the values --terms is given on the command line; <<>> is --terms ''
TermsArgs ==
    {None, Some(<<>>), Some(TermsJsonEnEs), Some(TermsJsonCamel),
     Some(TermsJsonCut), Some(TermsJsonWord)}

\* The command lines: the action and the three required flags are always
\* there (argparse refuses the others); None is a flag left out.
Argvs ==
    [action : CliActions, project_id : ProjectIds, glossary_id : {<<"g1">>},
     auth_file : AuthFiles,
     location : {None} \cup {Some(l) : l \in Locations},
     entry_id : {None, Some(<<>>), Some(EntryIdText(1))},
     terms : TermsArgs,
     description : {None, Some("greeting")},
     page_size : {None, Some(1)},
     output : {None, Some("json")}]

OrDefault(flag, default) == IF IsNone(flag) THEN default ELSE flag.val

\* A parser whose defaults are the location "global" and a page of 10.
parse_args_other_defaults(argv) ==
    [action |-> argv.action, project_id |-> argv.project_id,
     glossary_id |-> argv.glossary_id, auth_file |-> argv.auth_file,
     location |-> OrDefault(argv.location, <<"global">>),
     entry_id |-> argv.entry_id, terms |-> argv.terms,
     description |-> OrDefault(argv.description, ""),
     page_size |-> OrDefault(argv.page_size, 10),
     output |-> OrDefault(argv.output, "table")]

\* parser.parse_args(): the namespace, defaults filled in
parse_args(argv) ==
    [action |-> argv.action, project_id |-> argv.project_id,
     glossary_id |-> argv.glossary_id, auth_file |-> argv.auth_file,
     location |-> OrDefault(argv.location, <<"us-central1">>),
     entry_id |-> argv.entry_id, terms |-> argv.terms,
     description |-> OrDefault(argv.description, ""),
     page_size |-> OrDefault(argv.page_size, CliDefaultPageSize),
     output |-> OrDefault(argv.output, "table")]

\* not args.<flag>: the flag was left out or given as the empty string
NotGiven(flag) == IF IsNone(flag) THEN TRUE ELSE flag.val = <<>>

\* sys.exit(code) after printing message
sys_exit(c, code, message) ==
    [c EXCEPT !.pc = "exited", !.exit = Some(code), !.printed = message]

\* parser.error(message): argparse prints the usage and the message and
\* exits with status 2.
parser_error(c, message) == sys_exit(c, 2, message)

\* "Validate arguments"
validated(c, args) ==
    IF args.action \in {"get", "update", "delete"} /\ NotGiven(args.entry_id)
       THEN parser_error(c, "requires --entry-id")
    ELSE IF args.action \in {"create", "update"} /\ NotGiven(args.terms)
       THEN parser_error(c, "requires --terms")
    ELSE [c EXCEPT !.pc = "parsed", !.args = Some(args)]

\* a service that already holds one entry of glossary g1 of project p1 in
\* us-central1
Preloaded ==
    Nominal([method |-> "POST",
             url |-> BASE_URL \o <<Slash, "projects", Slash, "p1", Slash,
                                   "locations", Slash, "us-central1", Slash,
                                   "glossaries", Slash, "g1", Slash,
                                   "glossaryEntries">>,
             headers |-> NoHeaders, params |-> None,
             json |-> Some(RequestBody(<<TermCamel>>, "greeting"))],
            EmptyBackend).backend

\* The process starts: no manager exists yet. authFile is what is found at
\* the --auth-file path: nothing, a file that is no service-account key, or
\* a key file.
InitCli ==
    /\ ctor = None
    /\ self = None
    /\ backend \in {EmptyBackend, Preloaded}
    /\ last = NoCall
    /\ cli \in [pc : {"start"}, argv : Argvs, args : {None},
                authFile : {"absent", "invalid", "valid"},
                exit : {None}, managers : {0}, calls : {0},
                requests : {<<>>}, printed : {""}]
    /\ naming = NoNaming
    /\ xfer = NoProcess
    /\ conf = NoProcess
    /\ ask = NoProcess

\* args = parser.parse_args() and the two checks that follow it
ParseArgs ==
    /\ cli.pc = "start"
    /\ cli' = validated(cli, parse_args(cli.argv))
    /\ UNCHANGED <<ctor, self, backend, last, naming, xfer, conf, ask>>

\* The run goes on to the constructor whatever is at the --auth-file path.
CheckAuthFile_skipped ==
    /\ cli.pc = "parsed"
    /\ cli' = [cli EXCEPT !.pc = "checked"]
    /\ UNCHANGED <<ctor, self, backend, last, naming, xfer, conf, ask>>

\* if not os.path.exists(args.auth_file): ... sys.exit(1)
CheckAuthFile ==
    /\ cli.pc = "parsed"
    /\ cli' = IF cli.authFile = "absent"
                 THEN sys_exit(cli, 1, "Error: Auth file not found")
                 ELSE [cli EXCEPT !.pc = "checked"]
    /\ UNCHANGED <<ctor, self, backend, last, naming, xfer, conf, ask>>

\* manager = GlossaryEntryManager(...), sys.exit(1) when it raises
Construct ==
    /\ cli.pc = "checked"
    /\ IF cli.authFile = "invalid"
          THEN /\ cli' = sys_exit(cli, 1, "Error initializing GlossaryEntryManager")
               /\ UNCHANGED <<ctor, self>>
          ELSE /\ ctor' = [project_id |-> cli.args.val.project_id,
                           auth_file |-> cli.args.val.auth_file,
                           location |-> Some(cli.args.val.location)]
               /\ self' = GlossaryEntryManager(cli.args.val.project_id,
                                               cli.args.val.auth_file,
                                               Some(cli.args.val.location))
               /\ cli' = [cli EXCEPT !.pc = "ready", !.managers = @ + 1]
    /\ UNCHANGED <<backend, last, naming, xfer, conf, ask>>

\* The facade call of the action has returned out; main() prints message and
\* returns.
CliFinish(out, rec, message) ==
    /\ self' = out.self
    /\ backend' = out.backend
    /\ last' = rec
    /\ cli' = [cli EXCEPT !.pc = "returned", !.calls = @ + 1,
                          !.requests = @ \o out.requests, !.printed = message]
    /\ UNCHANGED <<ctor, naming, xfer, conf, ask>>

\* if entry: / if entries: / if entry_id: on what the facade returned
TruthyJson(j) ==
    CASE j.t = "obj" -> DOMAIN j.v # {}
      [] j.t = "list" -> j.v # <<>>
      [] j.t = "str" -> j.v # <<>>
      [] OTHER -> FALSE

ListMessage(args, entries) ==
    IF args.output = "json" THEN "json"
    ELSE IF entries # <<>> THEN "Glossary Entries" ELSE "No entries found."

GetMessage(args, entry) ==
    IF args.output = "json" THEN "json"
    ELSE IF IsNone(entry) THEN "Entry not found."
    ELSE IF TruthyJson(entry.val) THEN "Glossary Entry" ELSE "Entry not found."

CreateMessage(entry_id) ==
    IF IsNone(entry_id) THEN "Failed to create entry."
    ELSE IF entry_id.val # <<>> THEN "Successfully created entry"
    ELSE "Failed to create entry."

UpdateMessage(success) ==
    IF success THEN "Successfully updated entry." ELSE "Failed to update entry."

DeleteMessage(success) ==
    IF success THEN "Successfully deleted entry." ELSE "Failed to delete entry."

RunList ==
    /\ cli.pc = "ready"
    /\ cli.args.val.action = "list"
    /\ \E args \in {cli.args.val}, env \in EnvsWith(Faults) :
        \E out \in {list_glossary_entries(self, backend, args.glossary_id,
                                          args.page_size, env)} :
            CliFinish(out,
                      Called("list", args.glossary_id, None, None, None,
                             Some(args.page_size), out),
                      ListMessage(args, out.result))

RunGet ==
    /\ cli.pc = "ready"
    /\ cli.args.val.action = "get"
    /\ \E args \in {cli.args.val},
          env \in EnvsWith({"none", "s404", "s500", "badjson"}) :
        \E out \in {get_glossary_entry(self, backend, args.glossary_id,
                                       args.entry_id.val, env)} :
            CliFinish(out,
                      Called("get", args.glossary_id, args.entry_id, None, None,
                             None, out),
                      GetMessage(args, out.result))

\* except json.JSONDecodeError of the create and update branches
InvalidJson ==
    /\ cli' = sys_exit(cli, 1, "Error: Invalid JSON format for --terms")
    /\ UNCHANGED <<ctor, self, backend, last, naming, xfer, conf, ask>>

RunCreate ==
    /\ cli.pc = "ready"
    /\ cli.args.val.action = "create"
    /\ \E args \in {cli.args.val} :
        \E terms \in {json_loads(args.terms.val)} :
            IF terms.exc # "none" THEN InvalidJson
            ELSE \E env \in EnvsWith({"none", "s403", "s500", "badjson",
                                      "sparse", "nulls"}) :
                   \E out \in {create_glossary_entry(self, backend,
                                   args.glossary_id, terms.value,
                                   args.description, env)} :
                       CliFinish(out,
                                 Called("create", args.glossary_id, None,
                                        Some(terms.value),
                                        Some(args.description), None, out),
                                 CreateMessage(out.result))

RunUpdate ==
    /\ cli.pc = "ready"
    /\ cli.args.val.action = "update"
    /\ \E args \in {cli.args.val} :
        \E terms \in {json_loads(args.terms.val)} :
            IF terms.exc # "none" THEN InvalidJson
            ELSE \E env \in EnvsWith({"none", "s404", "badjson"}) :
                   \E out \in {update_glossary_entry(self, backend,
                                   args.glossary_id, args.entry_id.val,
                                   terms.value, args.description, env)} :
                       CliFinish(out,
                                 Called("update", args.glossary_id,
                                        args.entry_id, Some(terms.value),
                                        Some(args.description), None, out),
                                 UpdateMessage(out.result))

RunDelete ==
    /\ cli.pc = "ready"
    /\ cli.args.val.action = "delete"
    /\ \E args \in {cli.args.val},
          env \in EnvsWith({"none", "s404", "badjson"}) :
        \E out \in {delete_glossary_entry(self, backend, args.glossary_id,
                                          args.entry_id.val, env)} :
            CliFinish(out,
                      Called("delete", args.glossary_id, args.entry_id, None,
                             None, None, out),
                      DeleteMessage(out.result))

NextCli ==
    \/ ParseArgs \/ CheckAuthFile \/ Construct
    \/ RunList \/ RunGet \/ RunCreate \/ RunUpdate \/ RunDelete

SpecCli == InitCli /\ [][NextCli]_vars

\* ------------------------------------------------ claims on the entry CLI
\* the command line lacks the --entry-id its action needs
MissingEntryId ==
    /\ cli.argv.action \in {"get", "update", "delete"}
    /\ cli.argv.entry_id \in {None, Some(<<>>)}

\* the command line lacks the --terms its action needs
MissingTerms ==
    /\ cli.argv.action \in {"create", "update"}
    /\ cli.argv.terms \in {None, Some(<<>>)}

\* the action decodes --terms and its value is not a JSON text
UndecodableTerms ==
    /\ cli.argv.action \in {"create", "update"}
    /\ cli.argv.terms \in {Some(TermsJsonCut), Some(TermsJsonWord)}

\* C14 as stated: the entry CLI ends with exit code 1, no HTTP request
\* issued, whenever the action is get/update/delete and --entry-id is
\* missing, whenever it is create/update and --terms is missing, and
\* whenever --terms is not valid JSON.
C14_FailsFastWithExit1 ==
    (MissingEntryId \/ MissingTerms \/ UndecodableTerms) =>
        /\ cli.requests = <<>>
        /\ cli.pc # "returned"
        /\ cli.pc = "exited" => cli.exit = Some(1)

\* C14 as amended: when --entry-id or --terms is missing for an action that
\* needs it, the entry CLI ends through parser.error with exit code 2,
\* before a manager is constructed; otherwise, when the action is create or
\* update and --terms is not valid JSON, it ends with exit code 1; in both
\* cases no facade operation is called and no HTTP request is issued.
C14_FailsFast ==
    /\ (MissingEntryId \/ MissingTerms) =>
          /\ cli.requests = <<>>
          /\ cli.calls = 0
          /\ cli.managers = 0
          /\ cli.pc # "returned"
          /\ cli.pc = "exited" => cli.exit = Some(2)
    /\ (UndecodableTerms /\ ~MissingEntryId) =>
          /\ cli.requests = <<>>
          /\ cli.calls = 0
          /\ cli.pc # "returned"
          /\ cli.pc = "exited" => cli.exit = Some(1)

\* C14 witness: an update with an entry ID, a key file in place and terms
\* cut short has ended with exit code 1 after the manager was constructed,
\* no request issued.
C14_Witness ==
    /\ cli.pc = "exited"
    /\ cli.argv.action = "update"
    /\ cli.argv.entry_id = Some(EntryIdText(1))
    /\ cli.argv.terms = Some(TermsJsonCut)
    /\ cli.managers = 1
    /\ cli.exit = Some(1)
    /\ cli.requests = <<>>

\* the command line is the action list with the three required flags and
\* nothing else, and a key file is in place at the --auth-file path
ListWithRequiredFlagsOnly ==
    /\ cli.argv.action = "list"
    /\ IsNone(cli.argv.location)
    /\ IsNone(cli.argv.entry_id)
    /\ IsNone(cli.argv.terms)
    /\ IsNone(cli.argv.description)
    /\ IsNone(cli.argv.page_size)
    /\ IsNone(cli.argv.output)
    /\ cli.authFile = "valid"

Hyphen == "-"
Underscore == "_"
IwdTag == <<"iwd", Hyphen>>
IwdPrefix == <<"iwd", Underscore>>
GlossarySuffix == <<Underscore, "glossary.csv">>

\* SUPPORTED_LANGUAGE_PAIRS as it is without the environment variable
SUPPORTED_LANGUAGE_PAIRS ==
    << <<"en", Hyphen, "es">>, <<"en", Hyphen, "fr">>,
       <<"en", Hyphen, "bs">>, <<"en", Hyphen, "sw">> >>

\* Config.get_all_language_pairs
get_all_language_pairs ==
    SUPPORTED_LANGUAGE_PAIRS
      \o [i \in 1..Len(SUPPORTED_LANGUAGE_PAIRS) |->
              IwdTag \o SUPPORTED_LANGUAGE_PAIRS[i]]

\* str.replace(a, b) on a text
Replace(s, a, b) == [i \in 1..Len(s) |-> IF s[i] = a THEN b ELSE s[i]]

\* An object name that keeps the hyphens of the pair.
to_object_name_hyphens_kept(pair) == pair \o GlossarySuffix

\* to_object_name(pair): "iwd-" is stripped from the front when it is
\* there, "-" becomes "_", "iwd_" is put back in front and "_glossary.csv"
\* is appended.
to_object_name(pair) ==
    IF IsPrefix(IwdTag, pair)
       THEN IwdPrefix
               \o Replace(SubSeq(pair, Len(IwdTag) + 1, Len(pair)), Hyphen, Underscore)
               \o GlossarySuffix
       ELSE Replace(pair, Hyphen, Underscore) \o GlossarySuffix

\* the name without its "_glossary.csv", or without its "glossary.csv"
\* when no underscore precedes it
WithoutSuffix(name) ==
    IF Len(name) >= 2 /\ name[Len(name) - 1] = Underscore
       THEN SubSeq(name, 1, Len(name) - 2)
       ELSE SubSeq(name, 1, Len(name) - 1)

\* A reversal that does not put the "iwd-" tag back.
from_object_name_tag_lost(name, base) ==
    IF name = <<>> THEN None
    ELSE IF LastOf(name) # "glossary.csv" THEN None
    ELSE IF IsPrefix(IwdPrefix, base)
       THEN Some(Replace(SubSeq(base, Len(IwdPrefix) + 1, Len(base)),
                         Underscore, Hyphen))
    ELSE Some(Replace(base, Underscore, Hyphen))

\* from_object_name(name), base being the name without its suffix: nothing
\* for a name that does not end in "glossary.csv"; otherwise "_" becomes
\* "-", and "iwd-" is put in front when the name began with "iwd_".
from_object_name_of(name, base) ==
    IF name = <<>> THEN None
    ELSE IF LastOf(name) # "glossary.csv" THEN None
    ELSE IF IsPrefix(IwdPrefix, base)
       THEN Some(IwdTag \o Replace(SubSeq(base, Len(IwdPrefix) + 1, Len(base)),
                                   Underscore, Hyphen))
    ELSE Some(Replace(base, Underscore, Hyphen))

from_object_name(name) == from_object_name_of(name, WithoutSuffix(name))

\* the longest text drawn besides the configured pairs
MaxPairLen == 3
PairAtoms == {"iwd", "en", "es", Hyphen, Underscore}

RECURSIVE TextsUpTo(_)
TextsUpTo(n) ==
    IF n = 0 THEN {<<>>}
    ELSE TextsUpTo(n - 1)
            \cup {Append(t, a) : t \in {u \in TextsUpTo(n - 1) : Len(u) = n - 1},
                                 a \in PairAtoms}

\* the configured pairs and their IWD variants, and every short text, well
\* formed as a pair or not
ConfiguredPairs == {get_all_language_pairs[i] : i \in 1..Len(get_all_language_pairs)}
Pairs == ConfiguredPairs \cup TextsUpTo(MaxPairLen)

InitNaming ==
    /\ naming \in [pc : {"pair"}, pair : Pairs, name : {None}, back : {None}]
    /\ ctor = None
    /\ self = None
    /\ backend = EmptyBackend
    /\ last = NoCall
    /\ cli = NoProcess
    /\ xfer = NoProcess
    /\ conf = NoProcess
    /\ ask = NoProcess

\* the object name of the pair is computed
ToObjectName ==
    /\ naming.pc = "pair"
    /\ naming' = [naming EXCEPT !.pc = "named",
                                !.name = Some(to_object_name(naming.pair))]
    /\ UNCHANGED <<ctor, self, backend, last, cli, xfer, conf, ask>>

\* the pair is read back from the object name
FromObjectName ==
    /\ naming.pc = "named"
    /\ naming' = [naming EXCEPT !.pc = "reversed",
                                !.back = from_object_name(naming.name.val)]
    /\ UNCHANGED <<ctor, self, backend, last, cli, xfer, conf, ask>>

NextNaming == ToObjectName \/ FromObjectName

SpecNaming == InitNaming /\ [][NextNaming]_vars

\* ---------------------------------------------------- claims on naming
\* C17 as stated: for every language pair p, with or without the "iwd-"
\* tag, from_object_name(to_object_name(p)) = p.
C17_RoundTrip ==
    naming.pc = "reversed" => naming.back = Some(naming.pair)

\* the text holds no underscore
NoUnderscore(text) == \A k \in 1..Len(text) : text[k] # Underscore

\* C17 as amended: for every language pair p that holds no underscore, with
\* or without the "iwd-" tag, from_object_name(to_object_name(p)) = p; a
\* pair with an underscore in a code is read back with a hyphen in its
\* place and so never as itself.
C17_RoundTripWithoutUnderscore ==
    naming.pc = "reversed" =>
        /\ ~IsNone(naming.back)
        /\ NoUnderscore(naming.pair) <=> naming.back = Some(naming.pair)

\* C17 witness: the configured pair iwd-en-sw has been named and read back.
C17_Witness ==
    /\ naming.pc = "reversed"
    /\ naming.pair = <<"iwd", "-", "en", "-", "sw">>
    /\ naming.name = Some(<<"iwd", "_", "en", "_", "sw", "_", "glossary.csv">>)
    /\ naming.back = Some(naming.pair)

\* the language codes: the texts of one piece that is no separator
IsCode(a) == a \notin {Hyphen, Underscore}

list_environments == <<"dev", "prod">>

\* Every environment of the table taken for valid.
validate_environment_known(credentials, environment) ==
    environment \in DOMAIN credentials

\* Config.validate_environment: the environment is known and its
\* credentials file exists. credentials tells, for each environment, what
\* is at the path of its credentials file: "absent", "invalid" (a file that
\* is no service-account key) or "valid".
validate_environment(credentials, environment) ==
    IF environment \notin DOMAIN credentials THEN FALSE
    ELSE credentials[environment] # "absent"

\* ------------------------------------------------- the transfer facade
\* The bucket maps object names to contents; the local disk is a set of
\* directories and a map from file paths to contents. A content is the text
\* of a table ("tableA", "tableB") or something that is no table ("junk").
GlossariesDir == <<"glossaries">>
InDir(dir, filename) == dir \o <<Slash>> \o filename

IsTable(content) == content \in {"tableA", "tableB"}

\* What a facade call leaves behind: its boolean result, the bucket, the
\* local disk and the number of writes sent to the object store.
Done(success, bucket, files, dirs, writes) ==
    [success |-> success, bucket |-> bucket, files |-> files, dirs |-> dirs,
     writes |-> writes]

\* An upload that replaces the object only when overwrite is not asked for.
upload_glossary_csv_inverted(bucket, files, dirs, path, name, overwrite, net) ==
    IF path \notin DOMAIN files THEN Done(FALSE, bucket, files, dirs, 0)
    ELSE IF ~IsTable(files[path]) THEN Done(FALSE, bucket, files, dirs, 0)
    ELSE IF name \in DOMAIN bucket /\ overwrite
       THEN Done(FALSE, bucket, files, dirs, 0)
    ELSE IF net # "ok" THEN Done(FALSE, bucket, files, dirs, 1)
    ELSE Done(TRUE, (name :> files[path]) @@ bucket, files, dirs, 1)

\* upload(localPath, pair, overwrite), name being the object name of the
\* pair: NotFound, InvalidFormat, AlreadyExists without a write, and
\* otherwise the object is written; a write the store refuses is reported
\* as failure and leaves the bucket as it was.
upload_glossary_csv_to(bucket, files, dirs, path, name, overwrite, net) ==
    IF path \notin DOMAIN files THEN Done(FALSE, bucket, files, dirs, 0)
    ELSE IF ~IsTable(files[path]) THEN Done(FALSE, bucket, files, dirs, 0)
    ELSE IF name \in DOMAIN bucket /\ ~overwrite
       THEN Done(FALSE, bucket, files, dirs, 0)
    ELSE IF net # "ok" THEN Done(FALSE, bucket, files, dirs, 1)
    ELSE Done(TRUE, (name :> files[path]) @@ bucket, files, dirs, 1)

upload_glossary_csv(bucket, files, dirs, path, pair, overwrite, net) ==
    upload_glossary_csv_to(bucket, files, dirs, path, to_object_name(pair),
                           overwrite, net)

\* the local path a download writes to when none is given
DefaultPath(name) == InDir(GlossariesDir, name)

\* the directory of a local path: the text before its last "/"
DirOf(path) ==
    IF \E k \in 1..Len(path) : path[k] = Slash
       THEN SubSeq(path, 1,
                   (CHOOSE k \in 1..Len(path) :
                       /\ path[k] = Slash
                       /\ \A j \in (k + 1)..Len(path) : path[j] # Slash) - 1)
       ELSE <<>>

\* download(pair, localPath?), name being the object name of the pair and
\* path the local path or the default one: NotFound when the object is not
\* in the store; otherwise the directory of the path is created when it is
\* not there and the content is written.
download_glossary_csv_to(bucket, files, dirs, name, path, net) ==
    IF name \notin DOMAIN bucket THEN Done(FALSE, bucket, files, dirs, 0)
    ELSE IF net # "ok" THEN Done(FALSE, bucket, files, dirs, 0)
    ELSE Done(TRUE, bucket, (path :> bucket[name]) @@ files,
              dirs \cup ({DirOf(path)} \ {<<>>}), 0)

download_glossary_csv(bucket, files, dirs, pair, local_file_path, net) ==
    download_glossary_csv_to(bucket, files, dirs, to_object_name(pair),
                             IF IsNone(local_file_path)
                                THEN DefaultPath(to_object_name(pair))
                                ELSE local_file_path.val,
                             net)

\* the pairs of the objects whose name ends in "glossary.csv", each once
StoredPairs(bucket) ==
    {from_object_name(name).val :
        name \in {n \in DOMAIN bucket : ~IsNone(from_object_name(n))}}

\* the lists that hold each element of the finite set elems once
RECURSIVE ListsOf(_)
ListsOf(elems) ==
    IF elems = {} THEN {<<>>}
    ELSE UNION {{<<x>> \o rest : rest \in ListsOf(elems \ {x})} : x \in elems}

\* list_storage(): the stored pairs as a list, in no particular order; the
\* empty list when the store cannot be read
list_available_glossaries(bucket, net) ==
    IF net # "ok" THEN {<<>>} ELSE ListsOf(StoredPairs(bucket))

\* ------------------------------------ the transfer command line: prompts
\* What the user does at a prompt: types a line, or ends the input
\* (Ctrl-D, Ctrl-C).
Lines == {"0", "1", "2", "3", "4", "5", "x"}
Keyboard == {[k |-> "line", text |-> s] : s \in Lines} \cup {[k |-> "eof", text |-> ""]}

\* Lines with blanks around the number, a sign, a leading zero, a decimal
\* point, and the empty line.
OddLines == {" 2 ", "+2", "02", "-1", "2.0", ""}

\* str.strip()
strip(text) == IF text = " 2 " THEN "2" ELSE text

\* int(choice): the number, or None for the ValueError
int(text) ==
    CASE text = "0" -> Some(0)
      [] text = "1" -> Some(1)
      [] text \in {"2", "+2", "02"} -> Some(2)
      [] text = "-1" -> Some(0 - 1)
      [] text = "3" -> Some(3)
      [] text = "4" -> Some(4)
      [] text = "5" -> Some(5)
      [] OTHER -> None

Chosen(value) == [kind |-> "chosen", value |-> value]
Cancelled == [kind |-> "cancel", value |-> <<>>]
AskAgain == [kind |-> "again", value |-> <<>>]
Goodbye == [kind |-> "exit", value |-> <<>>]

\* The number after the last option taken as Cancel whether or not a
\* Cancel line was offered.
get_user_choice_of_cancel_always(options, choice_num, allow_cancel) ==
    IF IsNone(choice_num) THEN AskAgain
    ELSE IF choice_num.val = Len(options) + 1 THEN Cancelled
    ELSE IF 1 <= choice_num.val /\ choice_num.val <= Len(options)
       THEN Chosen(options[choice_num.val])
    ELSE AskAgain

\* One round of the loop of get_user_choice once the line is read as
\* choice_num (None: not a number).
get_user_choice_of(options, choice_num, allow_cancel) ==
    IF IsNone(choice_num) THEN AskAgain
    ELSE IF allow_cancel /\ choice_num.val = Len(options) + 1 THEN Cancelled
    ELSE IF 1 <= choice_num.val /\ choice_num.val <= Len(options)
       THEN Chosen(options[choice_num.val])
    ELSE AskAgain

\* One round of the loop of get_user_choice: the option chosen, the
\* cancellation, another round, or sys.exit(0) at the end of the input.
get_user_choice(options, key, allow_cancel) ==
    IF key.k = "eof" THEN Goodbye
    ELSE get_user_choice_of(options, int(strip(key.text)), allow_cancel)

\* f.suffix.lower() == '.csv'
IsCsv(filename) == filename # <<>> /\ LastOf(filename) \in {"glossary.csv", ".csv"}

\* the names of the CSV files directly inside the folder
CsvFilesIn(files, folder) ==
    {SubSeq(p, Len(folder) + 2, Len(p)) :
        p \in {q \in DOMAIN files : DirOf(q) = folder
                                     /\ IsCsv(SubSeq(q, Len(folder) + 2, Len(q)))}}

\* get_file_input after the listing, file_mapping being the regular files
\* followed by the IWD files: no second try.
get_file_input_of(file_mapping, choice_num) ==
    IF IsNone(choice_num) THEN Cancelled
    ELSE IF choice_num.val = Len(file_mapping) + 1 THEN Cancelled
    ELSE IF 1 <= choice_num.val /\ choice_num.val < Len(file_mapping) + 1
       THEN Chosen(file_mapping[choice_num.val])
    ELSE Cancelled

get_file_input(file_mapping, key) ==
    IF key.k = "eof" THEN Goodbye
    ELSE get_file_input_of(file_mapping, int(key.text))

\* the file lists get_file_input can show: iterdir() gives the files in an
\* order of its own
FileMappings(files) ==
    {regular \o iwd :
        regular \in ListsOf({f \in CsvFilesIn(files, GlossariesDir) :
                                ~IsPrefix(IwdPrefix, f)}),
        iwd \in ListsOf({f \in CsvFilesIn(files, GlossariesDir) :
                            IsPrefix(IwdPrefix, f)})}

\* get_text_input(prompt, allow_empty=True): the line typed, or sys.exit(0)
FilenamesTyped == {<<>>, <<"out", ".csv">>}

\* --------------------------------------- the transfer command line: main()
OpUpload == "Upload CSV glossary to Cloud Storage"
OpDownload == "Download CSV glossary from Cloud Storage"
OpList == "List available glossaries"
OpValidate == "Validate environment configuration"
operations == <<OpUpload, OpDownload, OpList, OpValidate>>

\* what the object store does with a call: it serves it or it fails
Nets == {"ok", "fails"}

\* local files and stored objects the process can find when it starts
RegularFile == <<"en", Underscore, "es", Underscore, "glossary.csv">>
IwdFile == IwdPrefix \o RegularFile
ForeignObject == <<"en", Hyphen, "fr", Underscore, "glossary.csv">>
NoFiles == [p \in {} |-> ""]

Disks ==
    {[dirs |-> {}, files |-> NoFiles],
     [dirs |-> {GlossariesDir}, files |-> NoFiles],
     [dirs |-> {GlossariesDir},
      files |-> (InDir(GlossariesDir, RegularFile) :> "tableA")
                  @@ (InDir(GlossariesDir, IwdFile) :> "tableA")],
     [dirs |-> {GlossariesDir},
      files |-> (InDir(GlossariesDir, RegularFile) :> "junk")]}

Buckets ==
    {NoFiles,
     (RegularFile :> "tableB"),
     (RegularFile :> "tableB") @@ (ForeignObject :> "tableB")}

\* main() returns, message being what it printed last
Returned(t, message) == [t EXCEPT !.pc = "returned", !.printed = message]

\* sys.exit(code)
Exited(t, code, message) ==
    [t EXCEPT !.pc = "exited", !.exit = Some(code), !.printed = message]

\* a prompt that did not give an option: the input ended, the line was no
\* valid choice, or the user cancelled
NotChosen(t, c, cancelled) ==
    CASE c.kind = "exit" -> Exited(t, 0, "Goodbye!")
      [] c.kind = "again" -> [t EXCEPT !.printed = "Please try again."]
      [] OTHER -> Returned(t, cancelled)

\* Config.SUPPORTED_LANGUAGE_PAIRS as the process may find it: the default
\* list, or the list of an environment variable that names an IWD pair.
SupportedLists ==
    {SUPPORTED_LANGUAGE_PAIRS,
     Split(<<"iwd", Hyphen, "en", Hyphen, "es", ",", "en", Hyphen, "es">>, ",")}

InitTransfer ==
    /\ \E credentials \in [{"dev", "prod"} -> {"absent", "invalid", "valid"}],
          disk \in Disks, bucket \in Buckets, supported \in SupportedLists :
        xfer = [pc |-> "env_prompt", credentials |-> credentials,
                supported |-> supported,
                bucket |-> bucket, files |-> disk.files, dirs |-> disk.dirs,
                bucket0 |-> bucket, files0 |-> disk.files, dirs0 |-> disk.dirs,
                environment |-> None, operation |-> None, options |-> <<>>,
                filename |-> None, language_pair |-> None,
                overwrite_choice |-> None, overwrite |-> None,
                custom_filename |-> None, success |-> None, exit |-> None,
                managers |-> 0, uploads |-> 0, downloads |-> 0, writes |-> 0,
                printed |-> ""]
    /\ ctor = None
    /\ self = None
    /\ backend = EmptyBackend
    /\ last = NoCall
    /\ cli = NoProcess
    /\ naming = NoNaming
    /\ conf = NoProcess
    /\ ask = NoProcess

\* Step 1 of main(): the environment is chosen and validated.
AfterEnvironment(t, c) ==
    IF c.kind # "chosen" THEN NotChosen(t, c, "Operation canceled.")
    ELSE IF ~validate_environment(t.credentials, c.value)
       THEN Exited([t EXCEPT !.environment = Some(c.value)], 1,
                   "Invalid environment")
    ELSE [t EXCEPT !.pc = "op_prompt", !.environment = Some(c.value),
                   !.printed = ""]

ChooseEnvironment ==
    /\ xfer.pc = "env_prompt"
    /\ \E key \in Keyboard :
          xfer' = AfterEnvironment(xfer, get_user_choice(list_environments, key, TRUE))
    /\ UNCHANGED <<ctor, self, backend, last, cli, naming, conf, ask>>

\* The start of the handler of the operation: handle_upload up to the file
\* prompt, handle_download up to the pair prompt, handle_list up to its
\* prompt, handle_validate to its end.
Dispatch(t, operation, file_mapping, listing) ==
    CASE operation = OpUpload ->
            IF GlossariesDir \notin t.dirs THEN Returned(t, "Upload canceled.")
            ELSE IF file_mapping = <<>> THEN Returned(t, "Upload canceled.")
            ELSE [t EXCEPT !.pc = "file_prompt", !.options = file_mapping]
      [] operation = OpDownload ->
            IF listing = <<>>
               THEN Returned(t, "No glossaries found in Cloud Storage")
               ELSE [t EXCEPT !.pc = "download_prompt", !.options = listing]
      [] operation = OpList -> [t EXCEPT !.pc = "list_prompt"]
      [] OTHER -> Returned(t, "Environment Configuration Validation")

\* Step 2 of main(): the operation is chosen, the facade is constructed
\* (GlossaryManager raises on a credentials file that is no key) and the
\* handler starts.
ChooseOperation ==
    /\ xfer.pc = "op_prompt"
    /\ \E key \in Keyboard :
        \E c \in {get_user_choice(operations, key, TRUE)} :
            \/ /\ c.kind # "chosen"
               /\ xfer' = NotChosen(xfer, c, "Operation canceled.")
            \/ /\ c.kind = "chosen"
               /\ xfer.credentials[xfer.environment.val] # "valid"
               /\ xfer' = Exited([xfer EXCEPT !.operation = Some(c.value)], 1, "Error")
            \/ /\ c.kind = "chosen"
               /\ xfer.credentials[xfer.environment.val] = "valid"
               /\ \E net \in Nets, file_mapping \in FileMappings(xfer.files) :
                    \E listing \in list_available_glossaries(xfer.bucket, net) :
                        xfer' = Dispatch([xfer EXCEPT !.operation = Some(c.value),
                                                      !.managers = @ + 1],
                                         c.value, file_mapping, listing)
    /\ UNCHANGED <<ctor, self, backend, last, cli, naming, conf, ask>>

\* handle_upload: the file is chosen; the pairs offered next are the IWD
\* pairs for a file whose name starts with "iwd_" and the regular pairs
\* otherwise.
AfterFile(t, c) ==
    IF c.kind # "chosen" THEN NotChosen(t, c, "Upload canceled.")
    ELSE [t EXCEPT !.pc = "pair_prompt", !.filename = Some(c.value),
                   !.options =
                       IF IsPrefix(IwdPrefix, c.value)
                          THEN [i \in 1..Len(t.supported) |->
                                    IwdTag \o t.supported[i]]
                          ELSE t.supported]

ChooseFile ==
    /\ xfer.pc = "file_prompt"
    /\ \E key \in Keyboard :
          xfer' = AfterFile(xfer, get_file_input(xfer.options, key))
    /\ UNCHANGED <<ctor, self, backend, last, cli, naming, conf, ask>>

\* handle_upload: the language pair is chosen.
AfterPair(t, c) ==
    IF c.kind # "chosen" THEN NotChosen(t, c, "Upload canceled.")
    ELSE [t EXCEPT !.pc = "overwrite_prompt", !.language_pair = Some(c.value)]

ChoosePair ==
    /\ xfer.pc = "pair_prompt"
    /\ \E key \in Keyboard :
          xfer' = AfterPair(xfer, get_user_choice(xfer.options, key, TRUE))
    /\ UNCHANGED <<ctor, self, backend, last, cli, naming, conf, ask>>

\* the facade call has ended as out
Facade(t, out, message) ==
    [t EXCEPT !.pc = "returned", !.bucket = out.bucket, !.files = out.files,
              !.dirs = out.dirs, !.writes = @ + out.writes,
              !.success = Some(out.success), !.printed = message]

\* the upload has ended as out
Uploaded(t, out) ==
    Facade(t, out, IF out.success THEN "Successfully uploaded"
                                  ELSE "Failed to upload")

\* the download has ended as out
Downloaded(t, out) ==
    Facade(t, out, IF out.success THEN "Successfully downloaded"
                                  ELSE "Failed to download")

\* The answer taken for true whenever there is one.
AfterOverwrite_any_answer(t, c, net) ==
    IF c.kind # "chosen" THEN NotChosen(t, c, "Upload canceled.")
    ELSE Uploaded([t EXCEPT !.overwrite_choice = Some(c.value),
                            !.overwrite = Some(c.value \in {"Yes", "No"}),
                            !.uploads = @ + 1],
                  upload_glossary_csv(t.bucket, t.files, t.dirs,
                                      InDir(GlossariesDir, t.filename.val),
                                      t.language_pair.val, c.value \in {"Yes", "No"}, net))

\* handle_upload: "Overwrite existing file?" is answered and the upload is
\* performed.
AfterOverwrite(t, c, net) ==
    IF c.kind # "chosen" THEN NotChosen(t, c, "Upload canceled.")
    ELSE Uploaded([t EXCEPT !.overwrite_choice = Some(c.value),
                            !.overwrite = Some(c.value = "Yes"),
                            !.uploads = @ + 1],
                  upload_glossary_csv(t.bucket, t.files, t.dirs,
                                      InDir(GlossariesDir, t.filename.val),
                                      t.language_pair.val, c.value = "Yes", net))

ChooseOverwrite ==
    /\ xfer.pc = "overwrite_prompt"
    /\ \E key \in Keyboard, net \in Nets :
          xfer' = AfterOverwrite(xfer, get_user_choice(<<"Yes", "No">>, key, TRUE), net)
    /\ UNCHANGED <<ctor, self, backend, last, cli, naming, conf, ask>>

\* handle_download: the pair to download is chosen among the stored ones.
AfterDownloadPair(t, c) ==
    IF c.kind # "chosen" THEN NotChosen(t, c, "Download canceled.")
    ELSE [t EXCEPT !.pc = "filename_prompt", !.language_pair = Some(c.value)]

ChooseDownloadPair ==
    /\ xfer.pc = "download_prompt"
    /\ \E key \in Keyboard :
          xfer' = AfterDownloadPair(xfer, get_user_choice(xfer.options, key, TRUE))
    /\ UNCHANGED <<ctor, self, backend, last, cli, naming, conf, ask>>

\* handle_download once the file name is typed: for a custom name the
\* folder glossaries is made when it is not there (mkdir(exist_ok=True)) and
\* the path is glossaries/<name>; then the download is performed.
AfterFilename(t, custom_filename, net) ==
    IF custom_filename # <<>>
       THEN Downloaded([t EXCEPT !.custom_filename = Some(custom_filename),
                                 !.downloads = @ + 1],
                       download_glossary_csv(
                           t.bucket, t.files, t.dirs \cup {GlossariesDir},
                           t.language_pair.val,
                           Some(InDir(GlossariesDir, custom_filename)), net))
       ELSE Downloaded([t EXCEPT !.custom_filename = Some(custom_filename),
                                 !.downloads = @ + 1],
                       download_glossary_csv(t.bucket, t.files, t.dirs,
                                             t.language_pair.val, None, net))

EnterFilename ==
    /\ xfer.pc = "filename_prompt"
    /\ \/ xfer' = Exited(xfer, 0, "Goodbye!")
       \/ \E custom_filename \in FilenamesTyped, net \in Nets :
             xfer' = AfterFilename(xfer, custom_filename, net)
    /\ UNCHANGED <<ctor, self, backend, last, cli, naming, conf, ask>>

\* handle_list: the kind of listing is chosen and the listing is printed.
AfterListType(t, c) ==
    IF c.kind # "chosen" THEN NotChosen(t, c, "List operation canceled.")
    ELSE Returned(t, c.value)

ChooseListType ==
    /\ xfer.pc = "list_prompt"
    /\ \E key \in Keyboard :
          xfer' = AfterListType(xfer, get_user_choice(<<"Cloud Storage", "Translation API">>,
                                                      key, TRUE))
    /\ UNCHANGED <<ctor, self, backend, last, cli, naming, conf, ask>>

NextTransfer ==
    \/ ChooseEnvironment \/ ChooseOperation
    \/ ChooseFile \/ ChoosePair \/ ChooseOverwrite
    \/ ChooseDownloadPair \/ EnterFilename
    \/ ChooseListType

SpecTransfer == InitTransfer /\ [][NextTransfer]_vars

\* ---------------------------------------------- claims on the transfer CLI
\* the process has ended, and the exit status the shell sees
TransferEnded == xfer.pc \in {"returned", "exited"}
ExitStatus == IF IsNone(xfer.exit) THEN 0 ELSE xfer.exit.val

\* the run failed: the environment chosen has no credentials file, the
\* facade could not be constructed, or the upload or download it performed
\* reported failure
RunFailed ==
    \/ xfer.printed \in {"Invalid environment", "Error"}
    \/ xfer.success = Some(FALSE)

\* C16 as stated: the transfer CLI ends with exit code 1 on any failure
\* (invalid environment, failed upload, failed download, exception while
\* constructing the facade) and with exit code 0 only when nothing failed.
C16_ExitCodeTellsFailure ==
    TransferEnded => (ExitStatus = 1 <=> RunFailed)

\* the upload the process performed, if it performed one
UploadDone == xfer.pc = "returned" /\ xfer.uploads = 1
UploadName == to_object_name(xfer.language_pair.val)
UploadPath == InDir(GlossariesDir, xfer.filename.val)

DownloadDone == xfer.pc = "returned" /\ xfer.downloads = 1

\* C20 as stated: a download of a pair whose object name is not in the store
\* always reports failure and writes nothing to the local disk, no file and
\* no directory, whether or not a custom file name was given.
C20_FailedDownloadWritesNothing ==
    (DownloadDone /\ to_object_name(xfer.language_pair.val) \notin DOMAIN xfer.bucket0) =>
        /\ xfer.success = Some(FALSE)
        /\ xfer.files = xfer.files0
        /\ xfer.dirs = xfer.dirs0

\* ------------------------------------------------------ the Config class
\* The class attributes are computed once, at import, from the environment
\* variables of the process; the class methods read them afterwards.
Comma == ","

\* os.getenv(name, default)
getenv(environ, name, default) ==
    IF name \in DOMAIN environ THEN environ[name] ELSE default

\* os.path.join(a, b) for two components
os_path_join(a, b) ==
    IF b # <<>> /\ Head(b) = Slash THEN b
    ELSE IF a = <<>> \/ LastOf(a) = Slash THEN a \o b
    ELSE a \o <<Slash>> \o b

\* the defaults written in the class body
DefaultDevCredentials == <<"auth_files", Slash, "dev.json">>
DefaultProdCredentials == <<"auth_files", Slash, "prod.json">>
DefaultPairsText ==
    <<"en", Hyphen, "es", Comma, "en", Hyphen, "fr", Comma,
      "en", Hyphen, "bs", Comma, "en", Hyphen, "sw">>

\* The body of class Config: ENVIRONMENTS and SUPPORTED_LANGUAGE_PAIRS
Config(environ) ==
    [ENVIRONMENTS |->
        [e \in {"dev", "prod"} |->
            IF e = "dev"
               THEN [credentials_file |-> getenv(environ, "DEV_CREDENTIALS_FILE", DefaultDevCredentials),
                     project_id |-> getenv(environ, "DEV_PROJECT_ID", <<"dom-dx-translation-dev">>),
                     bucket_name |-> getenv(environ, "DEV_BUCKET_NAME", <<"dom-dx-translation-dev-bucket">>)]
               ELSE [credentials_file |-> getenv(environ, "PROD_CREDENTIALS_FILE", DefaultProdCredentials),
                     project_id |-> getenv(environ, "PROD_PROJECT_ID", <<"dom-dx-translation-prod">>),
                     bucket_name |-> getenv(environ, "PROD_BUCKET_NAME", <<"dom-dx-translation-prod-bucket">>)]],
     SUPPORTED_LANGUAGE_PAIRS |->
        Split(getenv(environ, "SUPPORTED_LANGUAGE_PAIRS", DefaultPairsText), Comma)]

\* What a call of a class method leaves behind: the class attributes, the
\* value returned and the exception raised ("none" when it returned).
Outcome(cls, ret, exc) == [cls |-> cls, ret |-> ret, exc |-> exc]

\* The IWD variants appended to the configured list itself.
Config_get_all_language_pairs_shared_list(cls) ==
    Outcome([cls EXCEPT !.SUPPORTED_LANGUAGE_PAIRS =
                 @ \o [i \in 1..Len(@) |-> IwdTag \o @[i]]],
            cls.SUPPORTED_LANGUAGE_PAIRS
              \o [i \in 1..Len(cls.SUPPORTED_LANGUAGE_PAIRS) |->
                      IwdTag \o cls.SUPPORTED_LANGUAGE_PAIRS[i]],
            "none")

\* Config.get_all_language_pairs(): a new list, the configured pairs and
\* then "iwd-" + pair for each of them
Config_get_all_language_pairs(cls) ==
    Outcome(cls,
            cls.SUPPORTED_LANGUAGE_PAIRS
              \o [i \in 1..Len(cls.SUPPORTED_LANGUAGE_PAIRS) |->
                      IwdTag \o cls.SUPPORTED_LANGUAGE_PAIRS[i]],
            "none")

\* The credentials path written into the table entry, not into a copy.
Config_get_environment_config_no_copy(cls, cwd, environment) ==
    IF environment \notin DOMAIN cls.ENVIRONMENTS
       THEN Outcome(cls, None, "ValueError")
       ELSE Outcome([cls EXCEPT !.ENVIRONMENTS[environment] =
                        ("credentials_path" :> os_path_join(cwd, @.credentials_file)) @@ @],
                    ("credentials_path" :>
                        os_path_join(cwd, cls.ENVIRONMENTS[environment].credentials_file))
                      @@ cls.ENVIRONMENTS[environment],
                    "none")

\* Config.get_environment_config(environment): a copy of the entry with
\* the absolute path of the credentials file added
Config_get_environment_config(cls, cwd, environment) ==
    IF environment \notin DOMAIN cls.ENVIRONMENTS
       THEN Outcome(cls, None, "ValueError")
       ELSE Outcome(cls,
                    ("credentials_path" :>
                        os_path_join(cwd, cls.ENVIRONMENTS[environment].credentials_file))
                      @@ cls.ENVIRONMENTS[environment],
                    "none")

\* validate_environment after get_environment_config: os.path.exists
validate_after(out, exists) ==
    IF out.exc # "none" THEN out
    ELSE Outcome(out.cls, out.ret["credentials_path"] \in exists, "none")

\* The environment looked up without the test for a known name.
Config_validate_environment_unguarded(cls, cwd, exists, environment) ==
    validate_after(Config_get_environment_config(cls, cwd, environment), exists)

\* Config.validate_environment(environment)
Config_validate_environment(cls, cwd, exists, environment) ==
    IF environment \notin DOMAIN cls.ENVIRONMENTS
       THEN Outcome(cls, FALSE, "none")
       ELSE validate_after(Config_get_environment_config(cls, cwd, environment), exists)

\* Config.list_environments(): the keys of the table, in the order written
Config_list_environments(cls) ==
    Outcome(cls, SelectSeq(list_environments, LAMBDA e : e \in DOMAIN cls.ENVIRONMENTS), "none")

\* The environment variables the process may be started with: the list of
\* pairs unset, empty, one pair, a pair with its own IWD variant, a pair
\* twice; each credentials file unset or an absolute path.
PairsTexts ==
    {<<>>, <<"en", Hyphen, "es">>,
     <<"iwd", Hyphen, "en", Hyphen, "es", Comma, "en", Hyphen, "es">>,
     <<"en", Hyphen, "es", Comma, "en", Hyphen, "es">>}
AbsoluteCredentials == <<Slash, "keys", Slash, "sa.json">>
EnvironOf(pairs, dev, prod) ==
    (IF IsNone(pairs) THEN EmptyDict ELSE "SUPPORTED_LANGUAGE_PAIRS" :> pairs.val)
      @@ (IF dev THEN "DEV_CREDENTIALS_FILE" :> AbsoluteCredentials ELSE EmptyDict)
      @@ (IF prod THEN "PROD_CREDENTIALS_FILE" :> AbsoluteCredentials ELSE EmptyDict)
Environs ==
    {EnvironOf(pairs, dev, prod) :
        pairs \in {None} \cup {Some(t) : t \in PairsTexts},
        dev \in BOOLEAN, prod \in BOOLEAN}

\* os.getcwd(), and the paths that may exist on the disk
Cwd == <<Slash, "work">>
CredentialsPaths ==
    {os_path_join(Cwd, DefaultDevCredentials),
     os_path_join(Cwd, DefaultProdCredentials), AbsoluteCredentials}

\* the names the methods are called with
EnvironmentNames == {"dev", "prod", "staging", ""}

\* The module has been imported; no method has been called yet.
InitConfig ==
    /\ \E environ \in Environs, exists \in SUBSET CredentialsPaths :
        conf = [pc |-> "imported", cls |-> Config(environ), cls0 |-> Config(environ),
                exists |-> exists, call |-> "", arg |-> None,
                ret |-> None, exc |-> "none"]
    /\ ctor = None
    /\ self = None
    /\ backend = EmptyBackend
    /\ last = NoCall
    /\ cli = NoProcess
    /\ naming = NoNaming
    /\ xfer = NoProcess
    /\ ask = NoProcess

\* the state after a call of a method
ConfigCalled(c, call, arg, out) ==
    [c EXCEPT !.pc = "called", !.cls = out.cls, !.call = call, !.arg = arg,
              !.ret = out.ret, !.exc = out.exc]

GetAllLanguagePairs ==
    /\ conf.pc \in {"imported", "called"}
    /\ conf' = ConfigCalled(conf, "get_all_language_pairs", None,
                            Config_get_all_language_pairs(conf.cls))
    /\ UNCHANGED <<ctor, self, backend, last, cli, naming, xfer, ask>>

\* get_environment_config(): without an argument the environment is 'dev'
GetEnvironmentConfig ==
    /\ conf.pc \in {"imported", "called"}
    /\ \E arg \in {None} \cup {Some(e) : e \in EnvironmentNames} :
        conf' = ConfigCalled(conf, "get_environment_config", arg,
                    Config_get_environment_config(conf.cls, Cwd,
                        IF IsNone(arg) THEN "dev" ELSE arg.val))
    /\ UNCHANGED <<ctor, self, backend, last, cli, naming, xfer, ask>>

ValidateEnvironment ==
    /\ conf.pc \in {"imported", "called"}
    /\ \E e \in EnvironmentNames :
        conf' = ConfigCalled(conf, "validate_environment", Some(e),
                    Config_validate_environment(conf.cls, Cwd, conf.exists, e))
    /\ UNCHANGED <<ctor, self, backend, last, cli, naming, xfer, ask>>

ListEnvironments ==
    /\ conf.pc \in {"imported", "called"}
    /\ conf' = ConfigCalled(conf, "list_environments", None,
                            Config_list_environments(conf.cls))
    /\ UNCHANGED <<ctor, self, backend, last, cli, naming, xfer, ask>>

NextConfig ==
    \/ GetAllLanguagePairs
    \/ GetEnvironmentConfig
    \/ ValidateEnvironment
    \/ ListEnvironments

SpecConfig == InitConfig /\ [][NextConfig]_vars

\* ------------------------------------------------- claims on the Config class
\* the elements of a list, and a pair without its "iwd-" tag
ElementsOf(list) == {list[i] : i \in 1..Len(list)}
WithoutIwdTag(p) == IF IsPrefix(<<"iwd", "-">>, p) THEN SubSeq(p, 3, Len(p)) ELSE p
ConfConfigured == conf.cls0.SUPPORTED_LANGUAGE_PAIRS

\* C21: get_all_language_pairs returns every configured pair followed by the
\* "iwd-" variant of every configured pair, in configuration order: its
\* length is twice that of the configured list, a pair is in the result
\* exactly when it, or it without its "iwd-" tag, is configured, and the call
\* leaves SUPPORTED_LANGUAGE_PAIRS as it was.
C21_AllLanguagePairs ==
    (conf.pc = "called" /\ conf.call = "get_all_language_pairs") =>
        /\ conf.exc = "none"
        /\ Len(conf.ret) = 2 * Len(ConfConfigured)
        /\ \A i \in 1..Len(ConfConfigured) :
              /\ conf.ret[i] = ConfConfigured[i]
              /\ conf.ret[Len(ConfConfigured) + i] = <<"iwd", "-">> \o ConfConfigured[i]
        /\ \A p \in Pairs \cup ElementsOf(conf.ret) :
              p \in ElementsOf(conf.ret) <=>
                 \/ p \in ElementsOf(ConfConfigured)
                 \/ WithoutIwdTag(p) \in ElementsOf(ConfConfigured)
        /\ conf.cls.SUPPORTED_LANGUAGE_PAIRS = ConfConfigured

\* C21 witness: with no environment variable set, the call has returned the
\* four default pairs and then their four IWD variants, the list the
\* transfer command line offers.
C21_Witness ==
    /\ conf.pc = "called"
    /\ conf.call = "get_all_language_pairs"
    /\ Len(ConfConfigured) = 4
    /\ Len(conf.ret) = 8
    /\ conf.ret[2] = <<"en", "-", "fr">>
    /\ conf.ret[6] = <<"iwd", "-", "en", "-", "fr">>
    /\ conf.ret = get_all_language_pairs

\* C22: there are exactly two named environments, dev and prod; for each,
\* get_environment_config supplies a credentials-file path, a project
\* identifier and a bucket identifier; for any other name
\* get_environment_config fails with an error and validate_environment
\* returns False without raising.
C22_TwoEnvironments ==
    /\ DOMAIN conf.cls.ENVIRONMENTS = {"dev", "prod"}
    /\ (conf.pc = "called" /\ conf.call = "list_environments") =>
          /\ Len(conf.ret) = 2
          /\ ElementsOf(conf.ret) = {"dev", "prod"}
    /\ (conf.pc = "called" /\ conf.call = "get_environment_config") =>
          IF conf.arg \in {None, Some("dev"), Some("prod")}
             THEN /\ conf.exc = "none"
                  /\ {"credentials_file", "credentials_path", "project_id",
                      "bucket_name"} \subseteq DOMAIN conf.ret
                  /\ conf.ret["credentials_path"] # <<>>
                  /\ conf.ret["project_id"] # <<>>
                  /\ conf.ret["bucket_name"] # <<>>
             ELSE conf.exc = "ValueError"
    /\ (conf.pc = "called" /\ conf.call = "validate_environment"
          /\ conf.arg \notin {Some("dev"), Some("prod")}) =>
          /\ conf.exc = "none"
          /\ conf.ret = FALSE

\* C22 witness: get_environment_config("staging") has raised ValueError.
C22_Witness ==
    /\ conf.pc = "called"
    /\ conf.call = "get_environment_config"
    /\ conf.arg = Some("staging")
    /\ conf.exc = "ValueError"
    /\ conf.cls = conf.cls0

\* C28: get_environment_config and validate_environment leave the table
\* Config.ENVIRONMENTS unchanged: after any sequence of calls each entry
\* holds exactly its original keys (credentials_file, project_id,
\* bucket_name) and values, and the derived credentials_path is only in the
\* copy that is returned.
C28_EnvironmentsUnchanged ==
    /\ conf.cls.ENVIRONMENTS = conf.cls0.ENVIRONMENTS
    /\ \A e \in DOMAIN conf.cls.ENVIRONMENTS :
          DOMAIN conf.cls.ENVIRONMENTS[e] =
              {"credentials_file", "project_id", "bucket_name"}
    /\ (conf.pc = "called" /\ conf.call = "get_environment_config"
          /\ conf.exc = "none") =>
          /\ DOMAIN conf.ret = {"credentials_file", "project_id", "bucket_name",
                                "credentials_path"}
          /\ \A k \in {"credentials_file", "project_id", "bucket_name"} :
                conf.ret[k] =
                    conf.cls0.ENVIRONMENTS[IF IsNone(conf.arg) THEN "dev" ELSE conf.arg.val][k]

\* C28 witness: get_environment_config("prod") has returned a copy with the
\* path of the credentials file under the working directory, and the entry
\* of prod in the table has its three keys.
C28_Witness ==
    /\ conf.pc = "called"
    /\ conf.call = "get_environment_config"
    /\ conf.arg = Some("prod")
    /\ conf.exc = "none"
    /\ conf.ret["credentials_path"] = <<"/", "work", "/", "auth_files", "/", "prod.json">>
    /\ DOMAIN conf.cls.ENVIRONMENTS["prod"] = {"credentials_file", "project_id", "bucket_name"}

\* the exit status of the entry command line: 0 when main() returns
CliExitStatus == IF IsNone(cli.exit) THEN 0 ELSE cli.exit.val

\* the facade call of the run returned the value that tells failure: None
\* from create or get, False from update or delete
FacadeFailed ==
    /\ cli.pc \in {"returned", "exited"}
    /\ cli.calls = 1
    /\ \/ last.op \in {"create", "get"} /\ IsNone(last.result)
       \/ last.op \in {"update", "delete"} /\ last.result = FALSE

\* C23 as stated: the entry CLI turns a failed facade result (None from
\* create or get, False from update or delete) into a failure message and
\* an exit code that differs from the exit code of a successful run, 0.
C23_FailedResultChangesExitCode ==
    FacadeFailed =>
        /\ cli.printed \in {"Entry not found.", "Failed to create entry.",
                            "Failed to update entry.", "Failed to delete entry.",
                            "json"}
        /\ CliExitStatus # 0

\* the arguments passed the checks of the parser, so the run came to the
\* test of the --auth-file path, and the process has ended
CliEndedAfterParsing ==
    /\ cli.pc \in {"returned", "exited"}
    /\ ~IsNone(cli.args)

MaxRounds == 3
OptionLists ==
    {<<>>, <<"Yes">>, <<"Yes", "No">>, list_environments \o <<"test">>, operations}
AskKeyboard ==
    Keyboard \cup {[k |-> "line", text |-> s] : s \in OddLines}

\* get_user_choice(options, prompt, allow_cancel) has been called
InitAsk ==
    /\ \E options \in OptionLists, allow_cancel \in BOOLEAN :
        ask = [pc |-> "prompting", options |-> options,
               allow_cancel |-> allow_cancel, rounds |-> 0,
               key |-> [k |-> "none", text |-> ""], ret |-> None, exit |-> None]
    /\ ctor = None
    /\ self = None
    /\ backend = EmptyBackend
    /\ last = NoCall
    /\ cli = NoProcess
    /\ naming = NoNaming
    /\ xfer = NoProcess
    /\ conf = NoProcess

\* the state of the call after one round of the loop gave c
AfterRound(a, key, c) ==
    CASE c.kind = "chosen" ->
            [a EXCEPT !.pc = "returned", !.key = key, !.rounds = @ + 1,
                      !.ret = Some(c.value)]
      [] c.kind = "cancel" ->
            [a EXCEPT !.pc = "returned", !.key = key, !.rounds = @ + 1]
      [] c.kind = "exit" ->
            [a EXCEPT !.pc = "exited", !.key = key, !.rounds = @ + 1,
                      !.exit = Some(0)]
      [] OTHER -> [a EXCEPT !.key = key, !.rounds = @ + 1]

\* One round of the while loop: the menu is printed, a line is read.
AnswerPrompt ==
    /\ ask.pc = "prompting"
    /\ ask.rounds < MaxRounds
    /\ \E key \in AskKeyboard :
        ask' = AfterRound(ask, key,
                          get_user_choice(ask.options, key, ask.allow_cancel))
    /\ UNCHANGED <<ctor, self, backend, last, cli, naming, xfer, conf>>

NextAsk == AnswerPrompt

SpecAsk == InitAsk /\ [][NextAsk]_vars

\* ------------------------------------------------ claims on get_user_choice
\* the lines that spell the integer k: plain, signed, with a leading zero,
\* with blanks around it
EnteredAs(k) ==
    IF k < 0 THEN {ToString(k)}
    ELSE {ToString(k), "+" \o ToString(k), "0" \o ToString(k),
          " " \o ToString(k) \o " "}

\* the line read in the last round spells a number of an option, or the
\* number after the last option
OptionEntered ==
    \E k \in 1..Len(ask.options) : ask.key.text \in EnteredAs(k)
CancelEntered ==
    ask.allow_cancel /\ ask.key.text \in EnteredAs(Len(ask.options) + 1)

\* C24: get_user_choice returns only an element of the options list or
\* None: it returns options[k-1] exactly when the line entered is an integer
\* k with 1 <= k <= len(options), returns None only when allow_cancel is
\* true and the line is len(options)+1, and after every other line (no
\* number, out of range, or len(options)+1 when allow_cancel is false) it
\* asks again without returning.
C24_ChoiceOrNone ==
    /\ ask.pc = "returned" =>
          \/ IsNone(ask.ret)
          \/ ask.ret.val \in {ask.options[i] : i \in 1..Len(ask.options)}
    /\ (ask.pc # "none" /\ ask.rounds > 0 /\ ask.key.k = "line") =>
          /\ (ask.pc = "returned" /\ ~IsNone(ask.ret)) <=> OptionEntered
          /\ \A k \in 1..Len(ask.options) :
                ask.key.text \in EnteredAs(k) => ask.ret = Some(ask.options[k])
          /\ (ask.pc = "returned" /\ IsNone(ask.ret)) <=> CancelEntered
          /\ (~OptionEntered /\ ~CancelEntered) =>
                /\ ask.pc = "prompting"
                /\ IsNone(ask.ret)
                /\ IsNone(ask.exit)

\* C24 witness: asked for one of the four operations with no Cancel line, the
\* user first entered a line that made the function ask again and then
\* " 2 ", and the second operation was returned.
C24_Witness ==
    /\ ask.pc = "returned"
    /\ ask.options = operations
    /\ ~ask.allow_cancel
    /\ ask.rounds = 2
    /\ ask.key.text = " 2 "
    /\ ask.ret = Some(OpDownload)

\* -------------------------------------- claims on the flows of the transfer CLI
\* the upload flow has ended by a cancellation
UploadCancelled ==
    /\ xfer.pc = "returned"
    /\ xfer.operation = Some(OpUpload)
    /\ xfer.printed = "Upload canceled."

\* C25: in the interactive upload flow upload_glossary_csv is called at most
\* once and only after a file, a language pair and an overwrite answer have
\* all been chosen: a cancellation at any of the three prompts ends the flow
\* with no upload call, and overwrite=true is passed only when the answer
\* was "Yes".
C25_UploadAfterThreeChoices ==
    /\ xfer.pc # "none" =>
          /\ xfer.uploads <= 1
          /\ xfer.uploads = 1 =>
                /\ xfer.operation = Some(OpUpload)
                /\ ~IsNone(xfer.filename)
                /\ ~IsNone(xfer.language_pair)
                /\ xfer.overwrite_choice \in {Some("Yes"), Some("No")}
                /\ xfer.overwrite = Some(TRUE) <=> xfer.overwrite_choice = Some("Yes")
          /\ xfer.uploads = 0 =>
                /\ xfer.bucket = xfer.bucket0
                /\ xfer.writes = 0
                /\ IsNone(xfer.overwrite)
    /\ UploadCancelled =>
          /\ xfer.uploads = 0
          /\ IsNone(xfer.overwrite_choice)
          /\ IsNone(xfer.success)

\* C25 witness: a file and a pair were chosen, the overwrite prompt was
\* cancelled, and the flow ended with no upload.
C25_Witness ==
    /\ UploadCancelled
    /\ ~IsNone(xfer.filename)
    /\ ~IsNone(xfer.language_pair)
    /\ IsNone(xfer.overwrite_choice)
    /\ xfer.uploads = 0
    /\ xfer.bucket = xfer.bucket0

\* C26 as stated: in the interactive upload flow the pair passed to
\* upload_glossary_csv carries the "iwd-" tag exactly when the name of the
\* file selected starts with "iwd_".
C26_IwdPairForIwdFile ==
    (xfer.pc # "none" /\ xfer.uploads = 1) =>
        (IsPrefix(<<"iwd", "-">>, xfer.language_pair.val)
            <=> IsPrefix(<<"iwd", "_">>, xfer.filename.val))

\* the environment chosen, and what is at the path of its credentials file
CredentialsChosen == xfer.credentials[xfer.environment.val]

\* C27: in the transfer CLI the facade is constructed and a handler is run
\* only after the environment chosen has passed validate_environment and an
\* operation has been chosen; when the validation fails the process exits
\* with code 1 and no facade constructed; so 'Validate environment
\* configuration' is only reached where validate_environment had found the
\* credentials file.
C27_ValidatedBeforeFacade ==
    xfer.pc # "none" =>
        /\ xfer.managers <= 1
        /\ xfer.managers = 1 =>
              /\ ~IsNone(xfer.environment)
              /\ CredentialsChosen # "absent"
              /\ ~IsNone(xfer.operation)
        /\ xfer.pc \in {"file_prompt", "pair_prompt", "overwrite_prompt",
                        "download_prompt", "filename_prompt", "list_prompt"} =>
              xfer.managers = 1
        /\ (xfer.uploads + xfer.downloads > 0) => xfer.managers = 1
        /\ (~IsNone(xfer.environment) /\ CredentialsChosen = "absent") =>
              /\ xfer.pc = "exited"
              /\ xfer.exit = Some(1)
              /\ xfer.managers = 0
              /\ IsNone(xfer.operation)
        /\ xfer.operation = Some(OpValidate) =>
              /\ ~IsNone(xfer.environment)
              /\ CredentialsChosen # "absent"

\* C27 witness: prod, whose credentials file is absent, was chosen and the
\* process exited with code 1 before any operation was asked for.
C27_Witness ==
    /\ xfer.pc = "exited"
    /\ xfer.environment = Some("prod")
    /\ xfer.credentials["prod"] = "absent"
    /\ xfer.exit = Some(1)
    /\ xfer.managers = 0
    /\ IsNone(xfer.operation)

=============================================================================
